---- MODULE Spec2Model ----
(***************************************************************************)
(* A model of the uncertainty_prevalence pipeline:                         *)
(*   - GDELTNGramsStreamer.process_ngram_file  (the keyword scanner)       *)
(*   - GDELTNGramsStreamer.process_date_range  (the date-range driver)     *)
(*   - scripts/aggregate_outputs.py            (the aggregators)           *)
(* Text is a sequence of one-character strings, so that lower(), split(),  *)
(* strip(), slicing and the `in` operator are computed, not assumed.       *)
(***************************************************************************)
EXTENDS Integers, Sequences, FiniteSets, TLC

VARIABLES
    \* ---- process_ngram_file (one call) ----
    kwarg,                  \* the `keywords` argument the streamer was built with
    target_domains,         \* self.target_domains, as the constructor stored it
    keywords,               \* self.keywords, lower-cased by __init__
    pc,                     \* position of the call: "start", "lines", "returned"
    line_count,             \* lines read so far
    line,                   \* the line most recently read (NoLine before the first)
    uncertainty_mentions,   \* list of mention records built by the call
    co_occurring_terms,     \* Counter built by the call
    result,                 \* the (mentions, terms) tuple the call returns
    outcome,                \* how the call ended: "running", "eof", or the failure
    ref_mentions,           \* the same scan over the well-formed lines only
    ref_terms,
    \* ---- process_date_range (one call) ----
    start_date,             \* the arguments, each a day number and a time of day
    end_date,
    current_date,
    all_mentions,
    all_terms,
    range_pc,               \* "loop", "done", or "raised" (an exception left the call)
    scanned,                \* the date_time of every process_ngram_file call, in order
    day_outcomes,           \* "ok" or "failed" for every scan, in order
    ok_mentions,            \* what the scans that did not fail returned, in day order
    ok_terms,
    day_results,            \* the (mentions, terms) of every scan, in order
    df,                     \* the table the call returns
    \* ---- aggregate_outputs.py ----
    raw_mentions,           \* the uncertainty_mentions_*.csv files of raw_dir, in glob order
    mentions_file,          \* the combined uncertainty_mentions.csv
    mentions_status,        \* how aggregate_mentions ended ("idle" before the call)
    raw_cooc,               \* the uncertainty_cooccurrences_*.csv files of raw_dir
    cooc_file,              \* the combined uncertainty_cooccurrences.csv
    cooc_status,            \* how aggregate_cooccurrences ended
    scanned_files,          \* end to end: the feed files scanned into raw_mentions
    raw_wordcloud,          \* the word_cloud_data_*.json files of raw_dir, in glob order
    wordcloud_file,         \* the combined word_cloud_data.json
    wordcloud_status,       \* how aggregate_wordcloud ended
    same_dir,               \* whether raw_dir and output_dir are one directory
    runs,                   \* how many runs of the aggregation script have started
    first_run,              \* the raw files the directory held and what the first run wrote
    \* ---- the scripts' main functions ----
    script_pc,              \* where a script's main stands ("idle": no script runs)
    args,                   \* the arguments of the command line, or of the call
    today,                  \* the day datetime.now() falls on
    written,                \* every file write of the run, in order
    word_cloud_data         \* what generate_word_cloud_data returned

scanVars == <<kwarg, target_domains, keywords, pc, line_count, line, uncertainty_mentions,
              co_occurring_terms, result, outcome, ref_mentions, ref_terms>>

rangeVars == <<start_date, end_date, current_date, all_mentions, all_terms,
               range_pc, scanned, day_outcomes, ok_mentions, ok_terms,
               day_results, df>>

wcVars == <<raw_wordcloud, wordcloud_file, wordcloud_status>>

dirVars == <<same_dir, runs, first_run>>

aggVars == <<raw_mentions, mentions_file, mentions_status,
             raw_cooc, cooc_file, cooc_status, scanned_files, wcVars, dirVars>>

scriptVars == <<script_pc, args, today, written, word_cloud_data>>

vars == <<scanVars, rangeVars, aggVars, scriptVars>>

-----------------------------------------------------------------------------
(* Python text primitives *)

LowerLetters == <<"a", "b", "c", "d", "e", "f", "g", "h", "i", "j", "k", "l", "m",
                  "n", "o", "p", "q", "r", "s", "t", "u", "v", "w", "x", "y", "z">>
UpperLetters == <<"A", "B", "C", "D", "E", "F", "G", "H", "I", "J", "K", "L", "M",
                  "N", "O", "P", "Q", "R", "S", "T", "U", "V", "W", "X", "Y", "Z">>

\* str.lower() on one character
LowerChar(c) ==
    IF \E i \in 1..Len(UpperLetters) : UpperLetters[i] = c
    THEN LowerLetters[CHOOSE i \in 1..Len(UpperLetters) : UpperLetters[i] = c]
    ELSE c

\* str.lower()
Lower(s) == [i \in 1..Len(s) |-> LowerChar(s[i])]

\* `sub in s` on strings
Contains(s, sub) ==
    \E i \in 0..(Len(s) - Len(sub)) : SubSeq(s, i + 1, i + Len(sub)) = sub

\* s[:n]
Slice(s, n) == SubSeq(s, 1, IF Len(s) < n THEN Len(s) ELSE n)

IsSpace(c) == c = " "

\* str.strip(): from the first to the last character that is no whitespace
Strip(s) ==
    IF \A i \in 1..Len(s) : IsSpace(s[i]) THEN <<>>
    ELSE SubSeq(s,
                CHOOSE i \in 1..Len(s) :
                    ~IsSpace(s[i]) /\ \A j \in 1..(i - 1) : IsSpace(s[j]),
                CHOOSE i \in 1..Len(s) :
                    ~IsSpace(s[i]) /\ \A j \in (i + 1)..Len(s) : IsSpace(s[j]))

\* str.split(sep): the pieces between the separators, empty pieces included
RECURSIVE SplitOn(_, _)
SplitOn(s, sep) ==
    LET hits == {i \in 1..Len(s) : s[i] = sep}
    IN  IF hits = {} THEN <<s>>
        ELSE LET i == CHOOSE h \in hits : \A g \in hits : h <= g
             IN  <<SubSeq(s, 1, i - 1)>> \o SplitOn(SubSeq(s, i + 1, Len(s)), sep)

\* str.split(): the runs of non-whitespace characters
SplitWords(s) == SelectSeq(SplitOn(s, " "), LAMBDA w : w /= <<>>)

-----------------------------------------------------------------------------
(* JSON values of a record's fields *)

Str(s)  == [t |-> "str", s |-> s]
Absent  == [t |-> "absent", s |-> <<>>]
Null    == [t |-> "null", s |-> <<>>]
Num     == [t |-> "num", s |-> <<"5">>]     \* a non-zero number

\* record.get(key, '')
Get(v) == IF v.t = "absent" THEN Str(<<>>) ELSE v

\* bool(value)
Truthy(v) == CASE v.t = "str"  -> v.s /= <<>>
               [] v.t = "num"  -> TRUE
               [] OTHER        -> FALSE

\* str(value), as an f-string formats it
PyStr(v) == CASE v.t = "str"  -> v.s
              [] v.t = "num"  -> v.s
              [] OTHER        -> <<"N", "o", "n", "e">>

-----------------------------------------------------------------------------
(* collections.Counter *)

EmptyCounter == [w \in {} |-> 0]

Count(c, w) == IF w \in DOMAIN c THEN c[w] ELSE 0

\* Counter.update(iterable of words): one more for each occurrence
RECURSIVE CounterUpdateWords(_, _)
CounterUpdateWords(c, words) ==
    IF words = <<>> THEN c
    ELSE LET w == Head(words)
         IN  CounterUpdateWords(
                 [x \in DOMAIN c \cup {w} |-> Count(c, x) + (IF x = w THEN 1 ELSE 0)],
                 Tail(words))

\* Counter.update(mapping): the counts are added
CounterUpdateMappingOverwrites(c, m) ==
    [x \in DOMAIN c \cup DOMAIN m |-> IF x \in DOMAIN m THEN m[x] ELSE c[x]]

CounterUpdateMapping(c, m) ==
    [x \in DOMAIN c \cup DOMAIN m |-> Count(c, x) + Count(m, x)]

-----------------------------------------------------------------------------
(* GDELTNGramsStreamer *)

DEFAULT_KEYWORDS == <<<<"u", "n", "c", "e", "r", "t", "a", "i", "n", "t", "y">>>>

\* __init__: self.keywords = [kw.lower() for kw in (keywords or DEFAULT_KEYWORDS)]
\* (None and the empty list are both <<>> here)
InitKeywords(arg) ==
    LET given == IF arg = <<>> THEN DEFAULT_KEYWORDS ELSE arg
    IN  [i \in 1..Len(given) |-> Lower(given[i])]

ContextLimit == 500
MinWordLen == 3

\* the stopword list of process_ngram_file, without the keywords it appends
ScannerStopwords == <<
    <<"t", "h", "i", "s">>,
    <<"t", "h", "a", "t">>,
    <<"w", "i", "t", "h">>,
    <<"f", "r", "o", "m">>,
    <<"h", "a", "v", "e">>,
    <<"b", "e", "e", "n">>,
    <<"w", "i", "l", "l">>,
    <<"w", "o", "u", "l", "d">>,
    <<"c", "o", "u", "l", "d">>,
    <<"s", "h", "o", "u", "l", "d">>,
    <<"t", "h", "e", "i", "r">>,
    <<"a", "b", "o", "u", "t">>,
    <<"t", "h", "e", "r", "e">>,
    <<"t", "h", "e", "s", "e">>,
    <<"t", "h", "o", "s", "e">>,
    <<"t", "h", "e", "y">>,
    <<"w", "h", "a", "t">>,
    <<"w", "h", "e", "n">>,
    <<"w", "h", "e", "r", "e">>,
    <<"w", "h", "i", "c", "h">>,
    <<"w", "h", "i", "l", "e">>,
    <<"y", "o", "u", "r">> >>

SeqToSet(s) == {s[i] : i \in 1..Len(s)}

\* the test of one keyword against the lower-cased ngram
KeywordMatchesSubstringOnly(kw, ngram) ==
    Contains(ngram, Lower(kw))

KeywordMatchesExactOnly(kw, ngram) ==
    ngram = Lower(kw)

KeywordMatches(kw, ngram) ==
    LET kw_lower == Lower(kw)
    IN  \/ (~Contains(kw_lower, <<" ">>) /\ ngram = kw_lower)
        \/ (Contains(kw_lower, <<" ">>) /\ Contains(ngram, kw_lower))

\* the keyword loop with its break: the first keyword that matches, alone
MatchedKeywordsNoBreak(kws, ngram) ==
    SelectSeq(kws, LAMBDA kw : KeywordMatches(kw, ngram))

MatchedKeywords(kws, ngram) ==
    LET hits == {i \in 1..Len(kws) : KeywordMatches(kws[i], ngram)}
    IN  IF hits = {} THEN <<>>
        ELSE <<kws[CHOOSE i \in hits : \A j \in hits : i <= j]>>

\* record.get('lang', '') != 'en'
NotEnglishNever(rec) == FALSE

NotEnglish(rec) == Get(rec.lang) /= Str(<<"e", "n">>)

\* not article_url
NoUrlNever(article_url) == FALSE

NoUrl(article_url) == ~Truthy(article_url)

\* article_url.split('/')[2] if '//' in article_url else article_url.split('/')[0]
ExtractDomain(article_url) ==
    IF Contains(article_url, <<"/", "/">>)
    THEN SplitOn(article_url, "/")[3]
    ELSE SplitOn(article_url, "/")[1]

\* full_context[:500] if full_context else ''
TruncateContextOffByOne(full_context) ==
    IF full_context /= <<>> THEN Slice(full_context, ContextLimit + 1) ELSE <<>>

TruncateContext(full_context) ==
    IF full_context /= <<>> THEN Slice(full_context, ContextLimit) ELSE <<>>

\* [w.lower() for w in text.split() if len(w) > 3]
LongWords(text) ==
    LET ws == SelectSeq(SplitWords(text), LAMBDA w : Len(w) > MinWordLen)
    IN  [i \in 1..Len(ws) |-> Lower(ws[i])]

\* the words of pre and post that reach the counter
FilteredWordsKeepsKeywords(kws, pre, post) ==
    LET all_words == LongWords(pre) \o LongWords(post)
    IN  SelectSeq(all_words, LAMBDA w : w \notin SeqToSet(ScannerStopwords))

FilteredWords(kws, pre, post) ==
    LET all_words == LongWords(pre) \o LongWords(post)
        stopwords == SeqToSet(ScannerStopwords) \cup {Lower(kws[i]) : i \in 1..Len(kws)}
    IN  SelectSeq(all_words, LAMBDA w : w \notin stopwords)

\* what the loop body leaves behind: the two accumulators, whether an
\* exception left the loop (abort) instead of reaching the next line, and the
\* handler the body ended in ("none", "json", "record")
Continue(M, T) == [mentions |-> M, terms |-> T, abort |-> FALSE, error |-> "none"]
Abort(M, T)    == [mentions |-> M, terms |-> T, abort |-> TRUE, error |-> "none"]

\* except json.JSONDecodeError: log, continue
OnJSONDecodeErrorAborts(M, T) == [Abort(M, T) EXCEPT !.error = "json"]

OnJSONDecodeError(M, T) == [Continue(M, T) EXCEPT !.error = "json"]

\* except Exception: log, continue
OnRecordException(M, T) == [Continue(M, T) EXCEPT !.error = "record"]

\* the body of the line loop for a line that json.loads accepted
RecordStep(kws, rec, M, T) ==
    IF rec.kind = "nondict" THEN OnRecordException(M, T)      \* record.get: AttributeError
    ELSE IF NotEnglish(rec) THEN Continue(M, T)
    ELSE LET article_url == Get(rec.url) IN
    IF NoUrl(article_url) THEN Continue(M, T)
    ELSE IF article_url.t /= "str" THEN OnRecordException(M, T)  \* '//' in article_url: TypeError
    ELSE LET domain == ExtractDomain(article_url.s)
             ng     == Get(rec.ngram) IN
    IF ng.t /= "str" THEN OnRecordException(M, T)             \* .lower(): AttributeError
    ELSE LET ngram            == Lower(ng.s)
             matched_keywords == MatchedKeywords(kws, ngram) IN
    IF matched_keywords = <<>> THEN Continue(M, T)
    ELSE LET pre          == Get(rec.pre)
             post         == Get(rec.post)
             full_context == Strip(PyStr(pre) \o <<" ">> \o ngram \o <<" ">> \o PyStr(post))
             M2 == Append(M, [date     |-> Get(rec.date),
                              url      |-> article_url.s,
                              domain   |-> domain,
                              keywords |-> matched_keywords,
                              context  |-> TruncateContext(full_context),
                              ngram    |-> ngram]) IN
    IF ~(Truthy(pre) \/ Truthy(post)) THEN Continue(M2, T)
    ELSE IF pre.t /= "str" \/ post.t /= "str"
         THEN OnRecordException(M2, T)                        \* .split(): AttributeError
    ELSE Continue(M2, CounterUpdateWords(T, FilteredWords(kws, pre.s, post.s)))

\* the body of the line loop: json.loads, then the record
ProcessLine(kws, ln, M, T) ==
    IF ln.kind = "badjson" THEN OnJSONDecodeError(M, T)
    ELSE RecordStep(kws, ln, M, T)

-----------------------------------------------------------------------------
(* The inputs of one scan *)

MaxLines == 2
MaxLongLines == 2

Rep(c, n) == [i \in 1..n |-> c]

Date1 == Str(<<"2", "0", "2", "4", "-", "0", "1", "-", "0", "1">>)
Date2 == Str(<<"2", "0", "2", "4", "-", "0", "1", "-", "0", "2">>)

UrlA == Str(<<"h", "t", "t", "p", ":", "/", "/", "a", ".", "i", "o", "/", "1">>)
UrlB == Str(<<"b", ".", "i", "o", "/", "2">>)
UrlC == Str(<<"h", "t", "t", "p", "s", ":", "/", "/", "c", ".", "i", "o", "/", "3">>)

\* the `keywords` argument of the constructor (<<>>: None)
KeywordArgs ==
    { <<>>,
      <<<<"T", "r", "a", "d", "e", " ", "W", "a", "r">>, <<"w", "a", "r", " ", "o", "n">>, <<"U", "n", "c", "e", "r", "t", "a", "i", "n", "t", "y">>>>,
      <<<<"w", "a", "r", " ", "o", "n">>, <<"t", "r", "a", "d", "e", " ", "w", "a", "r">>>>,
      <<<<"T", "r", "a", "d", "e", " ", "W", "a", "r">>>> }

\* the `target_domains` argument of the constructor (<<>>: None or empty)
TargetDomainArgs == {<<>>, <<<<"a", ".", "i", "o">>>>}

Rec(lang, url, ngram, pre, post, date) ==
    [kind |-> "record", lang |-> lang, url |-> url, ngram |-> ngram,
     pre |-> pre, post |-> post, date |-> date]

En == Str(<<"e", "n">>)
Uncertainty == Str(<<"u", "n", "c", "e", "r", "t", "a", "i", "n", "t", "y">>)
MarketFell == Str(<<"M", "a", "r", "k", "e", "t", " ", "f", "e", "l", "l">>)

BadJson == [Rec(Absent, Absent, Absent, Absent, Absent, Absent) EXCEPT !.kind = "badjson"]
NonDict == [Rec(Absent, Absent, Absent, Absent, Absent, Absent) EXCEPT !.kind = "nondict"]
NoLine  == [Rec(Absent, Absent, Absent, Absent, Absent, Absent) EXCEPT !.kind = "none"]

\* records that differ in lang and url, with an ngram the keywords match
GateRecords ==
    {Rec(l, UrlA, Uncertainty, MarketFell, Absent, Date1) :
        l \in {Absent, Null, Str(<<"f", "r">>), Str(<<"E", "N">>)}}
    \cup {Rec(En, u, Uncertainty, MarketFell, Absent, Date1) :
        u \in {Absent, Null, Str(<<>>), Num}}

\* English records with a url, that differ in the ngram
NgramRecords ==
    {Rec(En, UrlA, g, MarketFell, Absent, Date1) :
        g \in {Uncertainty, Str(<<"U", "n", "c", "e", "r", "t", "a", "i", "n", "t", "y">>), Str(<<"e", "c", "o", "n", "o", "m", "i", "c", " ", "u", "n", "c", "e", "r", "t", "a", "i", "n", "t", "y">>), Str(<<"t", "r", "a", "d", "e", " ", "w", "a", "r">>),
               Str(<<"t", "h", "e", " ", "T", "r", "a", "d", "e", " ", "W", "a", "r">>), Str(<<"t", "r", "a", "d", "e", " ", "w", "a", "r", " ", "o", "n">>), Str(<<"t", "r", "a", "d", "e", "w", "a", "r">>),
               Str(<<"w", "a", "r">>), Absent, Num}}

\* matching records that differ in pre and post: with stopwords, short words
\* and keywords in them, and with non-text values
ContextRecords ==
    {Rec(En, UrlB, Uncertainty, p, Absent, Date2) :
        p \in {Absent, Null, Num,
               Str(<<" ", "T", "h", "i", "s", " ", "r", "a", "t", "e", " ", "h", "i", "k", "e", " ">>)}}
    \cup {Rec(En, UrlB, Uncertainty, p, q, Absent) :
        p \in {Absent, Null, Str(<<"t", "h", "a", "t", " ", "U", "n", "c", "e", "r", "t", "a", "i", "n", "t", "y", " ", "t", "a", "x">>)},
        q \in {Num, Str(<<"r", "a", "t", "e", " ", "R", "a", "t", "e", " ", "w", "i", "t", "h", " ", " ", "c", "u", "t">>)}}

\* matching records whose 'pre ngram post' is 499, 500, 501 and more characters
\* long ("uncertainty" and its two blanks are 13 characters), and shorter ones
LongRecords ==
    {Rec(En, UrlB, Uncertainty, p, Absent, Date2) :
        p \in {Str(Rep("x", ContextLimit - 13)),
               Str(Rep("x", ContextLimit - 12)),
               Str(Rep("x", ContextLimit - 11)),
               Str(<<" ">> \o Rep("x", ContextLimit - 12) \o <<" ">>),
               MarketFell}}
    \cup {Rec(En, UrlA, Uncertainty, Absent, q, Date1) :
        q \in {Absent, Str(Rep("y", ContextLimit)), Str(Rep("y", ContextLimit - 12))}}

Lines == {BadJson, NonDict} \cup GateRecords \cup NgramRecords \cup ContextRecords

\* how the fetch ends: requests.get raises RequestException, answers with a
\* status other than 200, answers 200; or (local path) open() raises
FetchOutcomes == {"request_exception", "non_200", "ok", "os_error"}

-----------------------------------------------------------------------------
(* process_ngram_file as a state machine: one call, line by line *)

\* return uncertainty_mentions, co_occurring_terms
ScanReturn(M, T) == [mentions |-> M, terms |-> T, raised |-> FALSE]

\* the handlers of the outer try, and the early return on a status other than
\* 200: return [], Counter(), whatever had been gathered
ScanFailureRaises(M, T) == [mentions |-> <<>>, terms |-> EmptyCounter, raised |-> TRUE]

ScanFailureKeepsPartial(M, T) == [mentions |-> M, terms |-> T, raised |-> FALSE]

ScanFailure(M, T) == [mentions |-> <<>>, terms |-> EmptyCounter, raised |-> FALSE]

EmptyResult == ScanReturn(<<>>, EmptyCounter)

ScanInitWith(keyword_args, domains) ==
    /\ kwarg \in keyword_args
    /\ target_domains \in domains
    /\ keywords = InitKeywords(kwarg)
    /\ pc = "start"
    /\ outcome = "running"
    /\ line_count = 0
    /\ line = NoLine
    /\ uncertainty_mentions = <<>>
    /\ co_occurring_terms = EmptyCounter
    /\ result = EmptyResult
    /\ ref_mentions = <<>>
    /\ ref_terms = EmptyCounter

\* requests.get / open raise, or the status is not 200: return [], Counter()
FetchFails ==
    /\ pc = "start"
    /\ \E o \in FetchOutcomes \ {"ok"} : outcome' = o
    /\ pc' = "returned"
    /\ result' = ScanFailure(uncertainty_mentions, co_occurring_terms)
    /\ UNCHANGED <<kwarg, target_domains, keywords, line_count, line, uncertainty_mentions,
                   co_occurring_terms, ref_mentions, ref_terms>>
    /\ UNCHANGED <<rangeVars, aggVars, scriptVars>>

\* the content is at hand: enter the line loop
FetchOk ==
    /\ pc = "start"
    /\ pc' = "lines"
    /\ UNCHANGED <<kwarg, target_domains, keywords, outcome, line_count, line, uncertainty_mentions,
                   co_occurring_terms, result, ref_mentions, ref_terms>>
    /\ UNCHANGED <<rangeVars, aggVars, scriptVars>>

\* one iteration of `for line in f`, the line drawn from S
ReadLineFrom(S, max) ==
    /\ pc = "lines"
    /\ line_count < max
    /\ \E ln \in S :
          LET r   == ProcessLine(keywords, ln, uncertainty_mentions, co_occurring_terms)
              ref == IF ln.kind = "badjson"
                     THEN Continue(ref_mentions, ref_terms)
                     ELSE RecordStep(keywords, ln, ref_mentions, ref_terms)
          IN  /\ line' = ln
              /\ line_count' = line_count + 1
              /\ uncertainty_mentions' = r.mentions
              /\ co_occurring_terms' = r.terms
              /\ ref_mentions' = ref.mentions
              /\ ref_terms' = ref.terms
              /\ IF r.abort
                 THEN \* the exception reaches the outer handler: return [], Counter()
                      /\ pc' = "returned"
                      /\ outcome' = "aborted"
                      /\ result' = ScanFailure(r.mentions, r.terms)
                 ELSE UNCHANGED <<pc, outcome, result>>
    /\ UNCHANGED <<kwarg, target_domains, keywords>>
    /\ UNCHANGED <<rangeVars, aggVars, scriptVars>>

\* the stream is exhausted: return uncertainty_mentions, co_occurring_terms
EndOfStream ==
    /\ pc = "lines"
    /\ pc' = "returned"
    /\ outcome' = "eof"
    /\ result' = ScanReturn(uncertainty_mentions, co_occurring_terms)
    /\ UNCHANGED <<kwarg, target_domains, keywords, line_count, line, uncertainty_mentions,
                   co_occurring_terms, ref_mentions, ref_terms>>
    /\ UNCHANGED <<rangeVars, aggVars, scriptVars>>

\* reading the gzip stream raises (corrupt or truncated archive): the outer
\* handler returns [], Counter()
GzipError ==
    /\ pc = "lines"
    /\ pc' = "returned"
    /\ outcome' = "gzip_error"
    /\ result' = ScanFailure(uncertainty_mentions, co_occurring_terms)
    /\ UNCHANGED <<kwarg, target_domains, keywords, line_count, line, uncertainty_mentions,
                   co_occurring_terms, ref_mentions, ref_terms>>
    /\ UNCHANGED <<rangeVars, aggVars, scriptVars>>

-----------------------------------------------------------------------------
(* process_ngram_file as a function of what the feed serves, for its callers *)

\* the line loop over a whole stream
RECURSIVE ScanLines(_, _, _, _)
ScanLines(kws, lines, M, T) ==
    IF lines = <<>> THEN Continue(M, T)
    ELSE LET r == ProcessLine(kws, Head(lines), M, T)
         IN  IF r.abort THEN r
             ELSE ScanLines(kws, Tail(lines), r.mentions, r.terms)

\* one call: file.fetch is how the fetch ends, file.lines the lines the stream
\* yields, file.gzip_error whether reading it raises after them
ScanFile(kws, file) ==
    IF file.fetch /= "ok" THEN ScanFailure(<<>>, EmptyCounter)
    ELSE LET r == ScanLines(kws, file.lines, <<>>, EmptyCounter)
         IN  IF r.abort \/ file.gzip_error
             THEN ScanFailure(r.mentions, r.terms)
             ELSE ScanReturn(r.mentions, r.terms)

-----------------------------------------------------------------------------
(* process_date_range *)

MaxDay == 3
MaxDayLines == 1

\* replace(hour=0, minute=1, second=0, microsecond=0), in seconds after midnight
MarkerTod == 60

\* times of day of the arguments: midnight, 00:01:00, noon
TimesOfDay == {0, MarkerTod, 43200}

DateTimes == [day : 1..MaxDay, tod : TimesOfDay]

\* datetime <= datetime
DtLeqByDay(a, b) == a.day <= b.day

DtLeq(a, b) == a.day < b.day \/ (a.day = b.day /\ a.tod <= b.tod)

\* datetime + timedelta(days=1)
NextDay(d) == [d EXCEPT !.day = d.day + 1]

\* the lines a day's file may hold
DayLines == {Rec(En, UrlA, Uncertainty, MarketFell, Absent, Date1),
             Rec(En, UrlB, Uncertainty, Absent, MarketFell, Date2), BadJson}

SeqsUpTo(S, n) == UNION {[1..k -> S] : k \in 0..n}

\* what the feed may serve for a day
DayFiles ==
    {[fetch |-> o, lines |-> <<>>, gzip_error |-> FALSE] : o \in FetchOutcomes \ {"ok"}}
    \cup {[fetch |-> "ok", lines |-> ls, gzip_error |-> g] :
             ls \in SeqsUpTo(DayLines, MaxDayLines), g \in BOOLEAN}

FileFails(file) == file.fetch /= "ok" \/ file.gzip_error

\* pd.DataFrame(): no column, no row
EmptyDataFrame == [columns |-> {}, rows |-> <<>>]

\* pd.DataFrame(all_mentions) if all_mentions else pd.DataFrame(): one row
\* for each dict, in list order, under the keys of the dicts
DataFrame(dicts) ==
    IF dicts = <<>> THEN EmptyDataFrame
    ELSE [columns |-> UNION {DOMAIN dicts[i] : i \in 1..Len(dicts)}, rows |-> dicts]

RangeIdle ==
    /\ start_date = [day |-> 1, tod |-> 0]
    /\ end_date = [day |-> 1, tod |-> 0]
    /\ current_date = start_date
    /\ all_mentions = <<>>
    /\ all_terms = EmptyCounter
    /\ range_pc = "idle"
    /\ scanned = <<>>
    /\ day_outcomes = <<>>
    /\ ok_mentions = <<>>
    /\ ok_terms = EmptyCounter
    /\ day_results = <<>>
    /\ df = EmptyDataFrame

RangeInit ==
    /\ start_date \in DateTimes
    /\ end_date \in DateTimes
    /\ current_date = start_date
    /\ all_mentions = <<>>
    /\ all_terms = EmptyCounter
    /\ range_pc = "loop"
    /\ scanned = <<>>
    /\ day_outcomes = <<>>
    /\ ok_mentions = <<>>
    /\ ok_terms = EmptyCounter
    /\ day_results = <<>>
    /\ df = EmptyDataFrame

\* one iteration of `while current_date <= end_date`
ScanDay ==
    /\ range_pc = "loop"
    /\ DtLeq(current_date, end_date)
    /\ \E file \in DayFiles :
          LET date_time == [day |-> current_date.day, tod |-> MarkerTod]
          IN  \E r \in {ScanFile(keywords, file)} :
              /\ scanned' = Append(scanned, date_time)
              /\ day_outcomes' = Append(day_outcomes,
                                        IF FileFails(file) THEN "failed" ELSE "ok")
              /\ IF r.raised
                 THEN \* nothing in the loop catches: the exception leaves the call
                      /\ range_pc' = "raised"
                      /\ UNCHANGED <<current_date, all_mentions, all_terms,
                                     ok_mentions, ok_terms, day_results>>
                 ELSE /\ all_mentions' = all_mentions \o r.mentions
                      /\ all_terms' = CounterUpdateMapping(all_terms, r.terms)
                      /\ current_date' = NextDay(current_date)
                      /\ ok_mentions' = IF FileFails(file) THEN ok_mentions
                                        ELSE ok_mentions \o r.mentions
                      /\ ok_terms' = IF FileFails(file) THEN ok_terms
                                     ELSE CounterUpdateMapping(ok_terms, r.terms)
                      /\ day_results' = Append(day_results,
                                                [mentions |-> r.mentions, terms |-> r.terms])
                      /\ UNCHANGED range_pc
    /\ UNCHANGED <<start_date, end_date, df>>
    /\ UNCHANGED <<scanVars, aggVars, scriptVars>>

\* the loop condition fails: return df, all_terms
RangeReturn ==
    /\ range_pc = "loop"
    /\ ~DtLeq(current_date, end_date)
    /\ range_pc' = "done"
    /\ df' = DataFrame(all_mentions)
    /\ UNCHANGED <<start_date, end_date, current_date, all_mentions, all_terms,
                   scanned, day_outcomes, ok_mentions, ok_terms, day_results>>
    /\ UNCHANGED <<scanVars, aggVars, scriptVars>>

-----------------------------------------------------------------------------
(* pandas and CSV primitives of the aggregators *)

\* a cell of a table read by pd.read_csv: text, or NaN for an empty field
Cell(text) == [na |-> FALSE, s |-> text]
NaN == [na |-> TRUE, s |-> <<>>]

\* to_csv then read_csv on one value: an empty field comes back as NaN
CsvRoundTrip(text) == IF text = <<>> THEN NaN ELSE Cell(text)

Digits == <<"0", "1", "2", "3", "4", "5", "6", "7", "8", "9">>

IsDigit(c) == \E i \in 1..Len(Digits) : Digits[i] = c

DigitValue(c) == (CHOOSE i \in 1..Len(Digits) : Digits[i] = c) - 1

\* text of the form YYYY-MM-DD with a month and a day that exist
IsIsoDate(t) ==
    /\ Len(t) = 10
    /\ t[5] = "-" /\ t[8] = "-"
    /\ \A i \in {1, 2, 3, 4, 6, 7, 9, 10} : IsDigit(t[i])
    /\ DigitValue(t[6]) * 10 + DigitValue(t[7]) \in 1..12
    /\ DigitValue(t[9]) * 10 + DigitValue(t[10]) \in 1..31

\* the position in time of an ISO date (greater is later)
IsoOrdinal(t) ==
    (DigitValue(t[1]) * 1000 + DigitValue(t[2]) * 100 + DigitValue(t[3]) * 10
        + DigitValue(t[4])) * 372
    + (DigitValue(t[6]) * 10 + DigitValue(t[7])) * 31
    + DigitValue(t[9]) * 10 + DigitValue(t[10])

\* pd.to_datetime on one cell: NaN becomes NaT, a date its position in time,
\* any other text raises
ToDatetime(c) ==
    IF c.na THEN [kind |-> "NaT", at |-> 0]
    ELSE IF IsIsoDate(c.s) THEN [kind |-> "time", at |-> IsoOrdinal(c.s)]
    ELSE [kind |-> "error", at |-> 0]

\* the order sort_values puts two datetimes in: ascending, NaT last
DatetimeLeq(a, b) == b.kind = "NaT" \/ (a.kind = "time" /\ b.kind = "time" /\ a.at <= b.at)

IndexOrders(n) == {p \in [1..n -> 1..n] : \A i, j \in 1..n : p[i] = p[j] => i = j}

\* the rows taken in the order p
Reorder(rows, p) == [i \in 1..Len(rows) |-> rows[p[i]]]

\* sort_values('date') (quicksort, not stable): every ordering of the rows
\* that is ascending in the parsed date
SortByDateAnyOrder(rows) ==
    {Reorder(rows, p) : p \in IndexOrders(Len(rows))}

SortByDate(rows) ==
    {Reorder(rows, p) : p \in
        {q \in IndexOrders(Len(rows)) :
            \A i \in 1..(Len(rows) - 1) :
                DatetimeLeq(ToDatetime(rows[q[i]].date), ToDatetime(rows[q[i + 1]].date))}}

\* sort_values('count', ascending=False): every ordering of the rows that is
\* descending in the count
SortByCountDesc(rows) ==
    {Reorder(rows, p) : p \in
        {q \in IndexOrders(Len(rows)) :
            \A i \in 1..(Len(rows) - 1) : rows[q[i]].count >= rows[q[i + 1]].count}}

RECURSIVE Concat(_)
\* pd.concat(dfs, ignore_index=True) on the rows
Concat(dfs) == IF dfs = <<>> THEN <<>> ELSE Head(dfs) \o Concat(Tail(dfs))

\* the subset drop_duplicates compares: ['date', 'url', 'context']
DedupKeyUrlOnly(row) == <<row.url>>

DedupKeyWithoutUrl(row) == <<row.date, row.context>>

DedupKey(row) == <<row.date, row.url, row.context>>

\* drop_duplicates(subset=['date', 'url', 'context']): the first row of every key
DropDuplicates(rows) ==
    SelectSeq([i \in 1..Len(rows) |-> [i |-> i, row |-> rows[i]]],
              LAMBDA e : \A j \in 1..(e.i - 1) : DedupKey(rows[j]) /= DedupKey(e.row))

-----------------------------------------------------------------------------
(* aggregate_mentions *)

MaxRawFiles == 2
MaxRawRows == 3

NoFile == [exists |-> FALSE, rows |-> <<>>]
Written(rows) == [exists |-> TRUE, rows |-> rows]

\* a raw file: read_csv raises on it, or yields its rows under the expected
\* columns (shaped), or under other columns
Unreadable == [readable |-> FALSE, shaped |-> FALSE, rows |-> <<>>]
Table(rows) == [readable |-> TRUE, shaped |-> TRUE, rows |-> rows]

MentionRow(date, url, context, ngram) ==
    [date |-> date, url |-> url, context |-> context, ngram |-> ngram]

\* what pd.concat makes of a row of a file without the mention columns: NaN
\* under each of them
NaNRow == MentionRow(NaN, NaN, NaN, NaN)

\* a CSV file of n rows with none of the expected columns
OtherTable(n) == [readable |-> TRUE, shaped |-> FALSE, rows |-> [i \in 1..n |-> NaNRow]]

ContextA == Cell(<<"a", " ", "u", "n", "c", "e", "r", "t", "a", "i", "n", "t", "y">>)
ContextB == Cell(<<"b", " ", "u", "n", "c", "e", "r", "t", "a", "i", "n", "t", "y">>)

\* the rows raw mention files are made of: two with one key, an earlier date,
\* an empty date, and a date that is no date
MentionRows ==
    { MentionRow(Cell(Date2.s), Cell(UrlA.s), ContextA, Cell(<<"u", "n", "c", "e", "r", "t", "a", "i", "n", "t", "y">>)),
      MentionRow(Cell(Date2.s), Cell(UrlA.s), ContextA, Cell(<<"U", "n", "c", "e", "r", "t", "a", "i", "n", "t", "y">>)),
      MentionRow(Cell(Date1.s), Cell(UrlB.s), ContextA, Cell(<<"u", "n", "c", "e", "r", "t", "a", "i", "n", "t", "y">>)),
      MentionRow(NaN, Cell(UrlA.s), ContextB, Cell(<<"u", "n", "c", "e", "r", "t", "a", "i", "n", "t", "y">>)),
      MentionRow(Cell(<<"s", "o", "o", "n">>), Cell(UrlB.s), ContextB, Cell(<<"u", "n", "c", "e", "r", "t", "a", "i", "n", "t", "y">>)) }

\* nothing here is about a second run or a shared directory
NoRun == [raw_mentions |-> <<>>, raw_cooc |-> <<>>, raw_wordcloud |-> <<>>,
          mentions_file |-> NoFile, cooc_file |-> NoFile, wordcloud_file |-> NoFile]

\* no script's main is running
NoArgs == [given |-> FALSE]

ScriptIdle ==
    /\ script_pc = "idle"
    /\ args = NoArgs
    /\ today = 0
    /\ written = <<>>
    /\ word_cloud_data = <<>>

DirIdle ==
    /\ same_dir = FALSE
    /\ runs = 1
    /\ first_run = NoRun

RECURSIVE TotalRows(_)
TotalRows(files) ==
    IF files = <<>> THEN 0 ELSE Len(Head(files).rows) + TotalRows(Tail(files))

AggIdle ==
    /\ raw_mentions = <<>>
    /\ mentions_file = NoFile
    /\ mentions_status = "idle"
    /\ raw_cooc = <<>>
    /\ cooc_file = NoFile
    /\ cooc_status = "idle"
    /\ scanned_files = <<>>
    /\ raw_wordcloud = <<>>
    /\ wordcloud_file = NoFile
    /\ wordcloud_status = "idle"
    /\ DirIdle

\* an earlier run left a raw mention file in raw_dir
AddRawMentions ==
    /\ mentions_status = "idle"
    /\ Len(raw_mentions) < MaxRawFiles
    /\ \E f \in {Unreadable} \cup
                {OtherTable(n) : n \in 1..(MaxRawRows - TotalRows(raw_mentions))} \cup
                {Table(rows) : rows \in SeqsUpTo(MentionRows,
                                                 MaxRawRows - TotalRows(raw_mentions))} :
          raw_mentions' = Append(raw_mentions, f)
    /\ UNCHANGED <<mentions_file, mentions_status, raw_cooc, cooc_file, cooc_status,
                   scanned_files>>
    /\ UNCHANGED <<scanVars, rangeVars, wcVars, dirVars, scriptVars>>

\* the rows of the files read_csv accepts, file by file
ReadableTables(files) ==
    LET ok == SelectSeq(files, LAMBDA f : f.readable)
    IN  [i \in 1..Len(ok) |-> ok[i].rows]

\* the whole of aggregate_mentions(raw_dir, output_file)
AggregateMentions ==
    /\ mentions_status = "idle"
    /\ IF raw_mentions = <<>>
       THEN mentions_status' = "no_files" /\ UNCHANGED mentions_file
       ELSE LET dfs == ReadableTables(raw_mentions) IN
       IF dfs = <<>>
       THEN mentions_status' = "no_valid" /\ UNCHANGED mentions_file
       ELSE IF \A i \in 1..Len(raw_mentions) : ~raw_mentions[i].shaped
       THEN \* drop_duplicates raises KeyError, outside any try: no frame has
            \* the columns of the subset
            mentions_status' = "raised" /\ UNCHANGED mentions_file
       ELSE LET combined == Concat(dfs)
                deduped  == LET kept == DropDuplicates(combined)
                            IN  [i \in 1..Len(kept) |-> kept[i].row]
            IN  IF \E i \in 1..Len(deduped) : ToDatetime(deduped[i].date).kind = "error"
                THEN \* pd.to_datetime raises, outside any try
                     mentions_status' = "raised" /\ UNCHANGED mentions_file
                ELSE /\ mentions_status' = "written"
                     /\ \E sorted \in SortByDate(deduped) :
                            mentions_file' = Written(sorted)
    /\ UNCHANGED <<raw_mentions, raw_cooc, cooc_file, cooc_status, scanned_files>>
    /\ UNCHANGED <<scanVars, rangeVars, wcVars, dirVars, scriptVars>>

-----------------------------------------------------------------------------
(* aggregate_cooccurrences *)

CoocRow(word, count) == [word |-> word, count |-> count]

Market == <<"m", "a", "r", "k", "e", "t">>
Trade == <<"t", "r", "a", "d", "e">>

\* the rows raw co-occurrence files are made of
CoocRows == {CoocRow(w, c) : w \in {Market, Trade}, c \in {1, 2}}

\* dict(zip(df['word'], df['co_occurrences_with_uncertainty'])): for a word
\* listed more than once the last row stays
DictOfRows(rows) ==
    [w \in {rows[i].word : i \in 1..Len(rows)} |->
        rows[CHOOSE i \in 1..Len(rows) :
                 /\ rows[i].word = w
                 /\ \A j \in (i + 1)..Len(rows) : rows[j].word /= w].count]

\* the loop over the files: word_counts.update(file_counts) for every file
\* read_csv accepts and that has the two columns (df['word'] raises KeyError
\* inside the try otherwise)
RECURSIVE MergeCoocFiles(_, _)
MergeCoocFiles(word_counts, files) ==
    IF files = <<>> THEN word_counts
    ELSE MergeCoocFiles(
             IF Head(files).readable /\ Head(files).shaped
             THEN CounterUpdateMapping(word_counts, DictOfRows(Head(files).rows))
             ELSE word_counts,
             Tail(files))

\* pd.DataFrame({'word': keys, ...: values}), in some order of the keys
RECURSIVE CounterRows(_)
CounterRows(c) ==
    IF DOMAIN c = {} THEN <<>>
    ELSE LET w == CHOOSE x \in DOMAIN c : TRUE
         IN  <<CoocRow(w, c[w])>> \o CounterRows([x \in DOMAIN c \ {w} |-> c[x]])

\* an earlier run left a raw co-occurrence file in raw_dir
AddRawCooc ==
    /\ cooc_status = "idle"
    /\ Len(raw_cooc) < MaxRawFiles
    /\ \E f \in {Unreadable, OtherTable(0)} \cup
                {Table(rows) : rows \in SeqsUpTo(CoocRows,
                                                 MaxRawRows - TotalRows(raw_cooc))} :
          raw_cooc' = Append(raw_cooc, f)
    /\ UNCHANGED <<raw_mentions, mentions_file, mentions_status, cooc_file, cooc_status,
                   scanned_files>>
    /\ UNCHANGED <<scanVars, rangeVars, wcVars, dirVars, scriptVars>>

\* the whole of aggregate_cooccurrences(raw_dir, output_file)
AggregateCooccurrences ==
    /\ cooc_status = "idle"
    /\ IF raw_cooc = <<>>
       THEN cooc_status' = "no_files" /\ UNCHANGED cooc_file
       ELSE LET word_counts == MergeCoocFiles(EmptyCounter, raw_cooc) IN
       IF DOMAIN word_counts = {}
       THEN cooc_status' = "no_valid" /\ UNCHANGED cooc_file
       ELSE /\ cooc_status' = "written"
            /\ \E sorted \in SortByCountDesc(CounterRows(word_counts)) :
                   cooc_file' = Written(sorted)
    /\ UNCHANGED <<raw_mentions, mentions_file, mentions_status, raw_cooc, scanned_files>>
    /\ UNCHANGED <<scanVars, rangeVars, wcVars, dirVars, scriptVars>>

-----------------------------------------------------------------------------
(* aggregate_wordcloud *)

\* an entry of a word-cloud list
Item(text, value) == [text |-> text, value |-> value]

\* a raw file: json.load raises on it; or it holds a word -> count mapping;
\* or a list of entries
BadJsonFile == [kind |-> "unreadable", items |-> <<>>]
MappingFile == [kind |-> "mapping", items |-> <<>>]
ListFile(items) == [kind |-> "list", items |-> items]

\* the entries raw word-cloud files are made of; one lacks its value
WordcloudItems ==
    {Item(w, c) : w \in {Market, Trade}, c \in {1, 2}} \cup {[text |-> Market]}

\* json.load and the dict comprehension succeed: a list whose entries all
\* have 'text' and 'value' (iterating a mapping yields its keys, and
\* key['text'] raises TypeError; a missing key raises KeyError)
WordcloudFileOk(file) ==
    /\ file.kind = "list"
    /\ \A i \in 1..Len(file.items) : DOMAIN file.items[i] = {"text", "value"}

\* {item['text']: item['value'] for item in data}: for a text listed more
\* than once the last entry stays
DictOfItems(items) ==
    [w \in {items[i].text : i \in 1..Len(items)} |->
        items[CHOOSE i \in 1..Len(items) :
                  /\ items[i].text = w
                  /\ \A j \in (i + 1)..Len(items) : items[j].text /= w].value]

\* the loop over the files: word_counts.update(file_counts) for every file
\* the try block gets through
RECURSIVE MergeWordcloudFiles(_, _)
MergeWordcloudFiles(word_counts, files) ==
    IF files = <<>> THEN word_counts
    ELSE MergeWordcloudFiles(
             IF WordcloudFileOk(Head(files))
             THEN CounterUpdateMapping(word_counts, DictOfItems(Head(files).items))
             ELSE word_counts,
             Tail(files))

\* the order of word_counts.items(): each word where it was first inserted
RECURSIVE FirstSeen(_, _)
FirstSeen(seen, files) ==
    IF files = <<>> THEN seen
    ELSE LET texts == IF WordcloudFileOk(Head(files))
                      THEN [i \in 1..Len(Head(files).items) |-> Head(files).items[i].text]
                      ELSE <<>>
             fresh == SelectSeq([i \in 1..Len(texts) |-> [i |-> i, text |-> texts[i]]],
                                LAMBDA e : /\ e.text \notin SeqToSet(seen)
                                           /\ \A j \in 1..(e.i - 1) : texts[j] /= e.text)
         IN  FirstSeen(seen \o [i \in 1..Len(fresh) |-> fresh[i].text], Tail(files))

\* list.sort(key=value, reverse=True): descending, and stable, so entries of
\* equal value stay in the order they had
SortByValueAscending(items) ==
    Reorder(items, CHOOSE p \in IndexOrders(Len(items)) :
        \A i \in 1..(Len(items) - 1) :
            \/ items[p[i]].value < items[p[i + 1]].value
            \/ (items[p[i]].value = items[p[i + 1]].value /\ p[i] < p[i + 1]))

SortByValueDesc(items) ==
    Reorder(items, CHOOSE p \in IndexOrders(Len(items)) :
        \A i \in 1..(Len(items) - 1) :
            \/ items[p[i]].value > items[p[i + 1]].value
            \/ (items[p[i]].value = items[p[i + 1]].value /\ p[i] < p[i + 1]))

RECURSIVE TotalItems(_)
TotalItems(files) ==
    IF files = <<>> THEN 0 ELSE Len(Head(files).items) + TotalItems(Tail(files))

\* the raw word-cloud files an earlier run may have left, within the bounds
WordcloudFilesUpTo(n) ==
    {BadJsonFile, MappingFile} \cup {ListFile(items) : items \in SeqsUpTo(WordcloudItems, n)}

\* an earlier run left a raw word-cloud file in raw_dir
AddRawWordcloud ==
    /\ wordcloud_status = "idle"
    /\ Len(raw_wordcloud) < MaxRawFiles
    /\ \E f \in WordcloudFilesUpTo(MaxRawRows - TotalItems(raw_wordcloud)) :
          raw_wordcloud' = Append(raw_wordcloud, f)
    /\ UNCHANGED <<raw_mentions, mentions_file, mentions_status, raw_cooc, cooc_file,
                   cooc_status, scanned_files, wordcloud_file, wordcloud_status>>
    /\ UNCHANGED <<scanVars, rangeVars, dirVars, scriptVars>>

\* the whole of aggregate_wordcloud(raw_dir, output_file)
AggregateWordcloud ==
    /\ wordcloud_status = "idle"
    /\ IF raw_wordcloud = <<>>
       THEN wordcloud_status' = "no_files" /\ UNCHANGED wordcloud_file
       ELSE LET word_counts == MergeWordcloudFiles(EmptyCounter, raw_wordcloud) IN
       IF DOMAIN word_counts = {}
       THEN wordcloud_status' = "no_valid" /\ UNCHANGED wordcloud_file
       ELSE LET words         == FirstSeen(<<>>, raw_wordcloud)
                combined_data == [i \in 1..Len(words) |->
                                     Item(words[i], word_counts[words[i]])]
            IN  /\ wordcloud_status' = "written"
                /\ wordcloud_file' = Written(SortByValueDesc(combined_data))
    /\ UNCHANGED <<raw_mentions, mentions_file, mentions_status, raw_cooc, cooc_file,
                   cooc_status, scanned_files, raw_wordcloud>>
    /\ UNCHANGED <<scanVars, rangeVars, dirVars, scriptVars>>

-----------------------------------------------------------------------------
(* main of aggregate_outputs.py: the three aggregators, one after the other,
   over a raw directory and an output directory earlier runs have filled *)

\* raw files of earlier analysis runs
MainMentionFiles ==
    { Unreadable,
      Table(<<MentionRow(Cell(Date2.s), Cell(UrlA.s), ContextA, Cell(Uncertainty.s)),
              MentionRow(Cell(Date1.s), Cell(UrlB.s), ContextB, Cell(Uncertainty.s))>>),
      Table(<<MentionRow(Cell(Date2.s), Cell(UrlA.s), ContextA, NaN),
              MentionRow(Cell(Date1.s), Cell(UrlC.s), ContextB, Cell(Uncertainty.s))>>) }

MainCoocFiles ==
    { Unreadable,
      Table(<<CoocRow(Market, 1), CoocRow(Trade, 2)>>),
      Table(<<CoocRow(Market, 2)>>) }

MainWordcloudFiles ==
    { MappingFile,
      ListFile(<<Item(Market, 1), Item(Trade, 2)>>),
      ListFile(<<Item(Market, 2)>>) }

\* the combined files an earlier aggregation run wrote
EarlierMentions == Written(<<MentionRow(Cell(Date1.s), Cell(UrlC.s), ContextA, Cell(Uncertainty.s))>>)
EarlierCooc == Written(<<CoocRow(Trade, 2)>>)
EarlierWordcloud == Written(<<Item(Trade, 2)>>)

MainInit ==
    /\ raw_mentions \in SeqsUpTo(MainMentionFiles, MaxRawFiles)
    /\ raw_cooc \in SeqsUpTo(MainCoocFiles, MaxRawFiles)
    /\ raw_wordcloud \in SeqsUpTo(MainWordcloudFiles, MaxRawFiles)
    /\ \E earlier \in BOOLEAN :
           /\ mentions_file = IF earlier THEN EarlierMentions ELSE NoFile
           /\ cooc_file = IF earlier THEN EarlierCooc ELSE NoFile
           /\ wordcloud_file = IF earlier THEN EarlierWordcloud ELSE NoFile
    /\ mentions_status = "idle"
    /\ cooc_status = "idle"
    /\ wordcloud_status = "idle"
    /\ scanned_files = <<>>
    /\ DirIdle

\* aggregate_mentions has returned
MainCooccurrences ==
    /\ mentions_status \in {"no_files", "no_valid", "written"}
    /\ AggregateCooccurrences

\* aggregate_cooccurrences has returned
MainWordcloud ==
    /\ cooc_status \in {"no_files", "no_valid", "written"}
    /\ AggregateWordcloud

-----------------------------------------------------------------------------
(* The aggregation script run again over the same directories *)

Runs == 2

\* the names main gives the combined files, and the patterns the aggregators
\* hand to glob.glob
MentionsName == <<"u", "n", "c", "e", "r", "t", "a", "i", "n", "t", "y", "_", "m", "e", "n", "t", "i", "o", "n", "s", ".", "c", "s", "v">>
CoocName == <<"u", "n", "c", "e", "r", "t", "a", "i", "n", "t", "y", "_", "c", "o", "o", "c", "c", "u", "r", "r", "e", "n", "c", "e", "s", ".", "c", "s", "v">>
WordcloudName == <<"w", "o", "r", "d", "_", "c", "l", "o", "u", "d", "_", "d", "a", "t", "a", ".", "j", "s", "o", "n">>

MentionsPattern == <<"u", "n", "c", "e", "r", "t", "a", "i", "n", "t", "y", "_", "m", "e", "n", "t", "i", "o", "n", "s", "_", "*", ".", "c", "s", "v">>
CoocPattern == <<"u", "n", "c", "e", "r", "t", "a", "i", "n", "t", "y", "_", "c", "o", "o", "c", "c", "u", "r", "r", "e", "n", "c", "e", "s", "_", "*", ".", "c", "s", "v">>
WordcloudPattern == <<"w", "o", "r", "d", "_", "c", "l", "o", "u", "d", "_", "d", "a", "t", "a", "_", "*", ".", "j", "s", "o", "n">>

\* the name an analysis run gives its i-th raw file of a pattern: the
\* pattern with the timestamp in the place of the star
RawName(pattern, i) ==
    LET parts == SplitOn(pattern, "*")
    IN  parts[1] \o <<Digits[i + 1]>> \o parts[2]

\* fnmatch of a name against a pattern with one star
GlobMatchesSuffixOnly(name, pattern) ==
    LET parts == SplitOn(pattern, "*")
    IN  /\ Len(name) >= Len(parts[2])
        /\ SubSeq(name, Len(name) - Len(parts[2]) + 1, Len(name)) = parts[2]

GlobMatches(name, pattern) ==
    LET parts == SplitOn(pattern, "*")
    IN  /\ Len(name) >= Len(parts[1]) + Len(parts[2])
        /\ SubSeq(name, 1, Len(parts[1])) = parts[1]
        /\ SubSeq(name, Len(name) - Len(parts[2]) + 1, Len(name)) = parts[2]

\* the files of raw_dir that bear on a pattern: the raw files of the kind
\* and, when output_dir is raw_dir and the combined file exists, that file
Listing(pattern, raw, combined_name, exists, combined) ==
    [i \in 1..Len(raw) |-> [name |-> RawName(pattern, i), content |-> raw[i]]]
        \o (IF same_dir /\ exists
            THEN <<[name |-> combined_name, content |-> combined]>>
            ELSE <<>>)

\* glob.glob(os.path.join(raw_dir, pattern)): the files whose name matches
Glob(pattern, listing) ==
    LET hits == SelectSeq(listing, LAMBDA f : GlobMatches(f.name, pattern))
    IN  [i \in 1..Len(hits) |-> hits[i].content]

\* a combined file as the reader of a raw file finds it
AsRawTable(file) == Table(file.rows)
AsRawWordcloud(file) == ListFile(file.rows)

\* raw directories of few files
RerunMentionFiles ==
    { Unreadable,
      Table(<<MentionRow(Cell(Date2.s), Cell(UrlA.s), ContextA, Cell(Uncertainty.s)),
              MentionRow(Cell(Date1.s), Cell(UrlB.s), ContextB, Cell(Uncertainty.s))>>) }

RerunCoocFiles == {Unreadable, Table(<<CoocRow(Market, 1), CoocRow(Trade, 2)>>)}

RerunWordcloudFiles == {MappingFile, ListFile(<<Item(Market, 1), Item(Trade, 2)>>)}

RerunInit ==
    /\ raw_mentions \in SeqsUpTo(RerunMentionFiles, MaxRawFiles)
    /\ raw_cooc \in SeqsUpTo(RerunCoocFiles, MaxRawFiles)
    /\ raw_wordcloud \in SeqsUpTo(RerunWordcloudFiles, MaxRawFiles)
    /\ \E earlier \in BOOLEAN :
           /\ mentions_file = IF earlier THEN EarlierMentions ELSE NoFile
           /\ cooc_file = IF earlier THEN EarlierCooc ELSE NoFile
           /\ wordcloud_file = IF earlier THEN EarlierWordcloud ELSE NoFile
    /\ mentions_status = "idle"
    /\ cooc_status = "idle"
    /\ wordcloud_status = "idle"
    /\ scanned_files = <<>>
    /\ same_dir \in BOOLEAN
    /\ runs = 1
    /\ first_run = NoRun

\* main has returned and the script is started again: the aggregators glob
\* the directory as the run before left it
RunAgain ==
    /\ wordcloud_status \in {"no_files", "no_valid", "written"}
    /\ runs < Runs
    /\ runs' = runs + 1
    /\ first_run' = IF runs = 1
                     THEN [raw_mentions |-> raw_mentions, raw_cooc |-> raw_cooc,
                           raw_wordcloud |-> raw_wordcloud,
                           mentions_file |-> mentions_file, cooc_file |-> cooc_file,
                           wordcloud_file |-> wordcloud_file]
                     ELSE first_run
    /\ raw_mentions' = Glob(MentionsPattern,
                            Listing(MentionsPattern, raw_mentions, MentionsName,
                                    mentions_file.exists, AsRawTable(mentions_file)))
    /\ raw_cooc' = Glob(CoocPattern,
                        Listing(CoocPattern, raw_cooc, CoocName,
                                cooc_file.exists, AsRawTable(cooc_file)))
    /\ raw_wordcloud' = Glob(WordcloudPattern,
                             Listing(WordcloudPattern, raw_wordcloud, WordcloudName,
                                     wordcloud_file.exists, AsRawWordcloud(wordcloud_file)))
    /\ mentions_status' = "idle"
    /\ cooc_status' = "idle"
    /\ wordcloud_status' = "idle"
    /\ UNCHANGED <<mentions_file, cooc_file, wordcloud_file, scanned_files, same_dir>>
    /\ UNCHANGED <<scanVars, rangeVars, scriptVars>>

-----------------------------------------------------------------------------
(* generate_word_cloud_data *)

MaxTally == 3
MaxTallyCount == 2

\* the default of max_words
DefaultMaxWords == 100

\* Counter.most_common(n): heapq.nlargest(n, items, key=count), which is
\* sorted(items, key=count, reverse=True)[:n]: descending, words of equal
\* count in the order of the Counter, and nothing for n <= 0.  A Counter is
\* given by its items(), pairs <<word, count>> in insertion order.
MostCommonUnsorted(items, n) ==
    IF n <= 0 THEN <<>>
    ELSE SubSeq(items, 1, IF n < Len(items) THEN n ELSE Len(items))

MostCommon(items, n) ==
    LET sorted == Reorder(items, CHOOSE p \in IndexOrders(Len(items)) :
                      \A i \in 1..(Len(items) - 1) :
                          \/ items[p[i]][2] > items[p[i + 1]][2]
                          \/ (items[p[i]][2] = items[p[i + 1]][2] /\ p[i] < p[i + 1]))
    IN  IF n <= 0 THEN <<>>
        ELSE SubSeq(sorted, 1, IF n < Len(sorted) THEN n ELSE Len(sorted))

\* [{"text": word, "value": count} for word, count in word_counts.most_common(max_words)]
GenerateWordCloudDataOf(items, max_words) ==
    LET top == MostCommon(items, max_words)
    IN  [i \in 1..Len(top) |-> Item(top[i][1], top[i][2])]

Fell == <<"f", "e", "l", "l">>

\* the tallies of the call: up to MaxTally words, each once, counted up to
\* MaxTallyCount
Tallies ==
    {t \in SeqsUpTo({Market, Trade, Fell} \X (1..MaxTallyCount), MaxTally) :
        \A i, j \in 1..Len(t) : t[i][1] = t[j][1] => i = j}

WordCloudInit ==
    /\ script_pc = "called"
    /\ args \in [word_counts : Tallies, max_words : (0..MaxTally) \cup {DefaultMaxWords}]
    /\ today = 0
    /\ written = <<>>
    /\ word_cloud_data = <<>>

\* the call of generate_word_cloud_data(word_counts, max_words)
GenerateWordCloudData ==
    /\ script_pc = "called"
    /\ word_cloud_data' = GenerateWordCloudDataOf(args.word_counts, args.max_words)
    /\ script_pc' = "returned"
    /\ UNCHANGED <<args, today, written>>
    /\ UNCHANGED <<scanVars, rangeVars, aggVars>>

-----------------------------------------------------------------------------
(* gdelt_ngrams_streaming.py: process_previous_days, save_results, main *)

MaxDaysBack == 2

\* process_previous_days(self, days_back=1): the positional arguments the
\* method takes after self
PreviousDaysParams == 1

\* binding the positional arguments of a call: more than the function has
\* parameters for is a TypeError
CallBinds(given, params) == Len(given) <= params

\* datetime.now().replace(hour=0, minute=0, second=0, microsecond=0)
Midnight(day) == [day |-> day, tod |-> 0]

\* process_previous_days: yesterday, and days_back - 1 days before it
PreviousDaysEnd == Midnight(today - 1)
PreviousDaysStart(days_back) == Midnight(today - 1 - (days_back - 1))

\* the call of process_date_range(start, end) from outside the class
CallDateRange(start, end) ==
    /\ range_pc = "idle"
    /\ start_date' = start
    /\ end_date' = end
    /\ current_date' = start
    /\ range_pc' = "loop"
    /\ UNCHANGED <<all_mentions, all_terms, scanned, day_outcomes, ok_mentions,
                   ok_terms, day_results, df>>

\* the items() of a Counter.  The model's Counter keeps no insertion order:
\* every order of the words is taken
ItemOrders(c) ==
    LET n == Cardinality(DOMAIN c)
        orders == {o \in [1..n -> DOMAIN c] : \A i, j \in 1..n : o[i] = o[j] => i = j}
    IN  {[i \in 1..n |-> <<o[i], c[o[i]]>>] : o \in orders}

\* a file write: the name (without directory and timestamp), the shape of
\* the content, the content
FileWrite(name, shape, content) == [name |-> name, shape |-> shape, content |-> content]

\* the command line of main, and the arguments of a caller of
\* process_previous_days
StreamInit ==
    /\ \/ /\ script_pc = "main"
          /\ args \in [days : 0..MaxDaysBack, interval : {1, 15}]
       \/ /\ script_pc = "call"
          /\ args \in [days_back : 0..MaxDaysBack]
    /\ today \in 1..MaxDay
    /\ written = <<>>
    /\ word_cloud_data = <<>>

\* main up to the call at line 309: process_previous_days(args.days, args.interval)
StreamMain ==
    /\ script_pc = "main"
    /\ IF CallBinds(<<args.days, args.interval>>, PreviousDaysParams)
       THEN /\ CallDateRange(PreviousDaysStart(args.days), PreviousDaysEnd)
            /\ script_pc' = "scanning"
       ELSE \* TypeError, which nothing catches
            /\ script_pc' = "type_error"
            /\ UNCHANGED rangeVars
    /\ UNCHANGED <<args, today, written, word_cloud_data>>
    /\ UNCHANGED <<scanVars, aggVars>>

\* streamer.process_previous_days(days_back), called with the argument it takes
CallPreviousDays ==
    /\ script_pc = "call"
    /\ IF CallBinds(<<args.days_back>>, PreviousDaysParams)
       THEN /\ CallDateRange(PreviousDaysStart(args.days_back), PreviousDaysEnd)
            /\ script_pc' = "scanning"
       ELSE /\ script_pc' = "type_error"
            /\ UNCHANGED rangeVars
    /\ UNCHANGED <<args, today, written, word_cloud_data>>
    /\ UNCHANGED <<scanVars, aggVars>>

\* save_results(mentions_df, word_counts, output_dir)
SaveResults ==
    /\ script_pc = "scanning"
    /\ range_pc = "done"
    /\ \E items \in ItemOrders(all_terms) :
          /\ word_cloud_data' = GenerateWordCloudDataOf(items, DefaultMaxWords)
          /\ written' = written \o
                 <<FileWrite(MentionsPattern, "csv", df),
                   FileWrite(WordcloudPattern, "list", word_cloud_data')>>
    /\ script_pc' = "saved"
    /\ UNCHANGED <<args, today>>
    /\ UNCHANGED <<scanVars, rangeVars, aggVars>>

-----------------------------------------------------------------------------
(* analyze_uncertainty.py: main *)

\* value of a run of digits
RECURSIVE Number(_)
Number(t) == IF t = <<>> THEN 0 ELSE Number(SubSeq(t, 1, Len(t) - 1)) * 10 + DigitValue(t[Len(t)])

AllDigits(t) == \A i \in 1..Len(t) : IsDigit(t[i])

IsLeap(y) == (y % 4 = 0 /\ y % 100 /= 0) \/ y % 400 = 0

DaysInMonth(y, m) ==
    IF m = 2 THEN (IF IsLeap(y) THEN 29 ELSE 28)
    ELSE IF m \in {4, 6, 9, 11} THEN 30 ELSE 31

RECURSIVE DaysBeforeMonth(_, _)
DaysBeforeMonth(y, m) ==
    IF m = 1 THEN 0 ELSE DaysBeforeMonth(y, m - 1) + DaysInMonth(y, m - 1)

\* date.toordinal(): the days from 0001-01-01, that day being 1
Ordinal(y, m, d) ==
    365 * (y - 1) + ((y - 1) \div 4) - ((y - 1) \div 100) + ((y - 1) \div 400)
        + DaysBeforeMonth(y, m) + d

\* datetime.strptime(text, "%Y-%m-%d"): four digits of year, one or two of
\* month and of day, nothing else, and a date that exists; ValueError
\* otherwise.  Returns the day as its ordinal.
Strptime(text) ==
    LET parts == SplitOn(text, "-")
        wellformed ==
            /\ Len(parts) = 3
            /\ Len(parts[1]) = 4 /\ AllDigits(parts[1])
            /\ Len(parts[2]) \in {1, 2} /\ AllDigits(parts[2])
            /\ Len(parts[3]) \in {1, 2} /\ AllDigits(parts[3])
    IN  IF ~wellformed THEN [ok |-> FALSE, day |-> 0]
        ELSE LET y == Number(parts[1])
                 m == Number(parts[2])
                 d == Number(parts[3])
             IN  IF y >= 1 /\ m \in 1..12 /\ d >= 1 /\ d <= DaysInMonth(y, m)
                 THEN [ok |-> TRUE, day |-> Ordinal(y, m, d)]
                 ELSE [ok |-> FALSE, day |-> 0]

\* the default of days when neither --days nor --start-date is given
DefaultDays == 30

DaysGiven(n) == [given |-> TRUE, n |-> n]
NoDays == [given |-> FALSE, n |-> 0]

\* lines 419-453: the date range of the run, or the exit
DateRangeOfArgs(a, now_day) ==
    LET start == Strptime(a.start_date.s)
        end == Strptime(a.end_date.s)
        yesterday == now_day - 1
        days == IF a.days.given THEN a.days.n ELSE DefaultDays
        given_start == IF Truthy(a.start_date) THEN start.day ELSE yesterday - (days - 1)
        given_end == IF Truthy(a.start_date) /\ Truthy(a.end_date) THEN end.day ELSE yesterday
        \* an end date in the future is set to yesterday
        clamped_end == IF given_end > now_day THEN yesterday ELSE given_end
    IN  IF Truthy(a.start_date) /\ ~start.ok THEN [exit |-> 1, start |-> 0, end |-> 0]
        ELSE IF Truthy(a.start_date) /\ Truthy(a.end_date) /\ ~end.ok
        THEN [exit |-> 1, start |-> 0, end |-> 0]
        ELSE IF given_start > clamped_end THEN [exit |-> 1, start |-> 0, end |-> 0]
        ELSE [exit |-> 0, start |-> given_start, end |-> clamped_end]

Date3 == Str(<<"2", "0", "2", "4", "-", "0", "1", "-", "0", "3">>)
Date9 == Str(<<"2", "0", "2", "4", "-", "0", "1", "-", "0", "9">>)
SlashDate == Str(<<"0", "1", "/", "0", "2", "/", "2", "0", "2", "4">>)
Feb30 == Str(<<"2", "0", "2", "4", "-", "0", "2", "-", "3", "0">>)

\* command lines: --days and --start-date exclude each other, and every
\* one names the days or a start date (the default is DefaultDays days)
AnalyzeArgs ==
    {a \in [days : {NoDays} \cup {DaysGiven(n) : n \in 0..MaxDaysBack},
            start_date : {Absent, Date1, Date2, Date3, SlashDate, Feb30},
            end_date : {Absent, Date1, Date2, Date9, SlashDate},
            visualize : BOOLEAN] :
        /\ a.days.given => a.start_date = Absent
        /\ a.days.given \/ Truthy(a.start_date)}

AnalyzeInit ==
    /\ script_pc = "main"
    /\ args \in AnalyzeArgs
    /\ today = Ordinal(2024, 1, 3)
    /\ written = <<>>
    /\ word_cloud_data = <<>>

\* main up to the call of process_date_range at line 465
AnalyzeMain ==
    /\ script_pc = "main"
    /\ LET r == DateRangeOfArgs(args, today)
       IN  IF r.exit /= 0
           THEN \* sys.exit(1)
                /\ script_pc' = "exit_1"
                /\ UNCHANGED rangeVars
           ELSE /\ CallDateRange(Midnight(r.start), Midnight(r.end))
                /\ script_pc' = "scanning"
    /\ UNCHANGED <<args, today, written, word_cloud_data>>
    /\ UNCHANGED <<scanVars, aggVars>>

\* process_date_range has returned: the raw mention file is written, and
\* visualize_results is called when --visualize is given
AnalyzeSave ==
    /\ script_pc = "scanning"
    /\ range_pc = "done"
    /\ written' = Append(written, FileWrite(MentionsPattern, "csv", df))
    /\ script_pc' = IF args.visualize THEN "visualize" ELSE "done"
    /\ UNCHANGED <<args, today, word_cloud_data>>
    /\ UNCHANGED <<scanVars, rangeVars, aggVars>>

-----------------------------------------------------------------------------
(* analyze_uncertainty.py: clean_and_normalize_word, normalize_words,
   visualize_results *)

MaxVizMentions == 2

\* the characters word.strip(...) of clean_and_normalize_word removes; the
\* three that are not ASCII are named
StripSet ==
    {".", ",", ";", ":", "\"", "!", "?", "(", ")", "[", "]", "{", "}",
     "ellipsis", "-", "en dash", "em dash"}

\* str.strip(chars): from the first to the last character not in chars
StripChars(s, chars) ==
    LET keep == {i \in 1..Len(s) : s[i] \notin chars}
    IN  IF keep = {} THEN <<>>
        ELSE SubSeq(s, CHOOSE i \in keep : \A j \in keep : i <= j,
                       CHOOSE i \in keep : \A j \in keep : j <= i)

\* word.startswith(q) and word.endswith(q)
Quoted(w, q) == Len(w) >= 1 /\ w[1] = q /\ w[Len(w)] = q

CleanAndNormalizeWord(word) ==
    LET lowered == Strip(Lower(word))
        parts == SplitOn(lowered, ".")
        \* "report.that" -> "report", when the first part has over two letters
        first == IF "." \in SeqToSet(lowered) /\ Len(parts[1]) > 2
                 THEN parts[1] ELSE lowered
        unquoted == IF Quoted(first, "\"") \/ Quoted(first, "'")
                    THEN SubSeq(first, 2, Len(first) - 1) ELSE first
        stripped == StripChars(unquoted, StripSet)
    IN  \* the possessive 's
        IF Len(stripped) >= 2 /\ SubSeq(stripped, Len(stripped) - 1, Len(stripped)) = <<"'", "s">>
        THEN SubSeq(stripped, 1, Len(stripped) - 2)
        ELSE stripped

\* get_stopwords()
GetStopwords ==
    { <<"t", "h", "i", "s">>,
      <<"t", "h", "a", "t">>, <<"w", "i", "t", "h">>, <<"f", "r", "o", "m">>,
      <<"h", "a", "v", "e">>, <<"b", "e", "e", "n">>, <<"w", "i", "l", "l">>,
      <<"w", "o", "u", "l", "d">>, <<"c", "o", "u", "l", "d">>, <<"s", "h", "o", "u", "l", "d">>,
      <<"t", "h", "e", "i", "r">>, <<"a", "b", "o", "u", "t">>, <<"t", "h", "e", "r", "e">>,
      <<"t", "h", "e", "s", "e">>, <<"t", "h", "o", "s", "e">>, <<"t", "h", "e", "y">>,
      <<"w", "h", "a", "t">>, <<"w", "h", "e", "n">>, <<"w", "h", "e", "r", "e">>,
      <<"w", "h", "i", "c", "h">>, <<"w", "h", "i", "l", "e">>, <<"y", "o", "u", "r">>,
      <<"s", "a", "i", "d">>, <<"s", "a", "y", "s">>, <<"a", "l", "s", "o">>,
      <<"m", "o", "r", "e">>, <<"s", "o", "m", "e">>, <<"s", "u", "c", "h">>,
      <<"t", "h", "a", "n">>, <<"t", "h", "e", "n">>, <<"t", "h", "e", "m">>,
      <<"w", "e", "r", "e">>, <<"i", "n", "t", "o">>, <<"o", "v", "e", "r">>,
      <<"u", "n", "d", "e", "r">>, <<"a", "g", "a", "i", "n">>,
      <<"f", "u", "r", "t", "h", "e", "r">>, <<"h", "e", "r", "e">>, <<"o", "n", "c", "e">>,
      <<"o", "n", "l", "y">>, <<"v", "e", "r", "y">>, <<"o", "t", "h", "e", "r">>,
      <<"s", "a", "m", "e">>, <<"j", "u", "s", "t">>, <<"m", "o", "s", "t">>,
      <<"b", "o", "t", "h">>, <<"m", "u", "c", "h">>, <<"e", "a", "c", "h">>,
      <<"b", "e", "f", "o", "r", "e">>, <<"a", "f", "t", "e", "r">>, <<"a", "b", "o", "v", "e">>,
      <<"b", "e", "l", "o", "w">>, <<"d", "u", "r", "i", "n", "g">>,
      <<"t", "h", "r", "o", "u", "g", "h">>, <<"b", "e", "t", "w", "e", "e", "n">>,
      <<"s", "i", "n", "c", "e">>, <<"u", "n", "t", "i", "l">>, <<"l", "i", "k", "e">>,
      <<"d", "o", "e", "s">>, <<"d", "o", "i", "n", "g">>, <<"d", "o", "n", "e">>,
      <<"m", "a", "n", "y">>, <<"s", "t", "i", "l", "l">>, <<"e", "v", "e", "n">>,
      <<"m", "a", "k", "e">>, <<"m", "a", "d", "e">>, <<"m", "a", "k", "i", "n", "g">>,
      <<"t", "a", "k", "e">>, <<"t", "a", "k", "i", "n", "g">>, <<"t", "o", "o", "k">>,
      <<"t", "a", "k", "e", "n">>, <<"c", "o", "m", "e">>, <<"c", "o", "m", "e", "s">>,
      <<"c", "o", "m", "i", "n", "g">>, <<"c", "a", "m", "e">>, <<"g", "o", "i", "n", "g">>,
      <<"g", "o", "e", "s">>, <<"w", "e", "n", "t">>, <<"g", "o", "n", "e">>,
      <<"b", "e", "i", "n", "g">>, <<"s", "h", "o", "w">>, <<"s", "h", "o", "w", "s">>,
      <<"s", "h", "o", "w", "e", "d">>, <<"s", "h", "o", "w", "n">>,
      <<"s", "h", "o", "w", "i", "n", "g">>, <<"g", "i", "v", "e">>, <<"g", "i", "v", "e", "s">>,
      <<"g", "i", "v", "i", "n", "g">>, <<"g", "a", "v", "e">>, <<"g", "i", "v", "e", "n">>,
      <<"f", "i", "n", "d">>, <<"f", "i", "n", "d", "s">>, <<"f", "i", "n", "d", "i", "n", "g">>,
      <<"f", "o", "u", "n", "d">>, <<"w", "a", "n", "t">>, <<"w", "a", "n", "t", "s">>,
      <<"w", "a", "n", "t", "i", "n", "g">>, <<"w", "a", "n", "t", "e", "d">>, <<"t", "h", "e">>,
      <<"a", "n", "d">>, <<"b", "u", "t">>, <<"f", "o", "r">>, <<"n", "o", "r">>,
      <<"y", "e", "t">>, <<"s", "o">>, <<"e", "i", "t", "h", "e", "r">>,
      <<"n", "e", "i", "t", "h", "e", "r">>, <<"n", "o", "t">>, <<"a", "l", "l">>,
      <<"a", "n", "y">>, <<"f", "e", "w">>, <<"s", "e", "v", "e", "r", "a", "l">>,
      <<"o", "n", "e">>, <<"t", "w", "o">>, <<"t", "h", "r", "e", "e">>, <<"f", "o", "u", "r">>,
      <<"f", "i", "v", "e">>, <<"s", "i", "x">>, <<"s", "e", "v", "e", "n">>,
      <<"e", "i", "g", "h", "t">>, <<"n", "i", "n", "e">>, <<"t", "e", "n">>,
      <<"f", "i", "r", "s", "t">>, <<"s", "e", "c", "o", "n", "d">>, <<"t", "h", "i", "r", "d">>,
      <<"l", "a", "s", "t">>, <<"n", "e", "x", "t">>, <<"p", "r", "e", "v", "i", "o", "u", "s">>,
      <<"n", "o", "w">>, <<"t", "o", "d", "a", "y">>, <<"t", "o", "m", "o", "r", "r", "o", "w">>,
      <<"y", "e", "s", "t", "e", "r", "d", "a", "y">>, <<"s", "a", "y">>,
      <<"s", "a", "y", "i", "n", "g">>, <<"t", "o", "l", "d">>, <<"t", "e", "l", "l", "s">>,
      <<"t", "e", "l", "l">>, <<"t", "e", "l", "l", "i", "n", "g">>,
      <<"r", "e", "p", "o", "r", "t", "e", "d">>, <<"r", "e", "p", "o", "r", "t", "s">>,
      <<"r", "e", "p", "o", "r", "t">>, <<"r", "e", "p", "o", "r", "t", "i", "n", "g">>,
      <<"s", "t", "a", "t", "e", "d">>, <<"s", "t", "a", "t", "e", "s">>,
      <<"s", "t", "a", "t", "e">>, <<"s", "t", "a", "t", "i", "n", "g">>,
      <<"a", "n", "n", "o", "u", "n", "c", "e", "d">>,
      <<"a", "n", "n", "o", "u", "n", "c", "e", "s">>, <<"a", "n", "n", "o", "u", "n", "c", "e">>,
      <<"a", "n", "n", "o", "u", "n", "c", "i", "n", "g">>, <<"n", "o", "t", "e", "d">>,
      <<"n", "o", "t", "e", "s">>, <<"n", "o", "t", "e">>, <<"n", "o", "t", "i", "n", "g">>,
      <<"i", "m", "a", "g", "e">>, <<"p", "h", "o", "t", "o">>, <<"v", "i", "d", "e", "o">>,
      <<"g", "e", "t", "t", "y">>, <<"r", "e", "u", "t", "e", "r", "s">>, <<"a", "f", "p">>,
      <<"a", "s", "s", "o", "c", "i", "a", "t", "e", "d">>, <<"p", "r", "e", "s", "s">>,
      <<"c", "o", "p", "y", "r", "i", "g", "h", "t">>, <<"r", "i", "g", "h", "t", "s">>,
      <<"r", "e", "s", "e", "r", "v", "e", "d">>, <<"c", "a", "p", "t", "i", "o", "n">>,
      <<"s", "o", "u", "r", "c", "e">>, <<"c", "r", "e", "d", "i", "t">>, <<"f", "i", "l", "e">>,
      <<"p", "i", "c", "t", "u", "r", "e">>, <<"p", "i", "c", "t", "u", "r", "e", "s">>,
      <<"i", "m", "a", "g", "e", "s">>, <<"p", "h", "o", "t", "o", "s">>,
      <<"v", "i", "d", "e", "o", "s">>, <<"a", "r", "t", "i", "c", "l", "e">>,
      <<"s", "t", "o", "r", "y">>, <<"n", "e", "w", "s">>, <<"r", "e", "a", "d">>,
      <<"c", "l", "i", "c", "k">>, <<"l", "i", "n", "k">>, <<"v", "i", "s", "i", "t">>,
      <<"w", "e", "b", "s", "i", "t", "e">>, <<"o", "n", "l", "i", "n", "e">>,
      <<"f", "o", "l", "l", "o", "w">>, <<"t", "w", "i", "t", "t", "e", "r">>,
      <<"f", "a", "c", "e", "b", "o", "o", "k">>, <<"i", "n", "s", "t", "a", "g", "r", "a", "m">>,
      <<"s", "o", "c", "i", "a", "l">>, <<"m", "e", "d", "i", "a">>,
      <<"a", "l", "r", "e", "a", "d", "y">>, <<"b", "e", "c", "a", "u", "s", "e">>,
      <<"t", "o", "o">>, <<"n", "e", "v", "e", "r", "t", "h", "e", "l", "e", "s", "s">>,
      <<"c", "o", "n", "t", "i", "n", "u", "e", "d">>, <<"d", "e", "s", "p", "i", "t", "e">>,
      <<"a", "r", "o", "u", "n", "d">>, <<"f", "a", "c", "i", "n", "g">>,
      <<"c", "a", "u", "s", "e", "d">>, <<"b", "a", "c", "k">>,
      <<"s", "u", "r", "r", "o", "u", "n", "d", "i", "n", "g">>, <<"a", "d", "d", "e", "d">>,
      <<"y", "e", "a", "r">>, <<"t", "i", "m", "e">>, <<"h", "a", "p", "p", "e", "n">>,
      <<"a", "f", "f", "e", "c", "t", "e", "d">>, <<"r", "e", "g", "a", "r", "d", "i", "n", "g">>,
      <<"h", "u", "g", "e">>, <<"p", "r", "i", "s", "o", "n">>,
      <<"r", "a", "i", "s", "i", "n", "g">>,
      <<"b", "i", "g", "-", "p", "i", "c", "t", "u", "r", "e">>, <<"m", "o", "o", "d">>,
      <<"d", "a", "n", "g", "e", "r">>, <<"p", "r", "e", "s", "i", "d", "e", "n", "t">>,
      <<"h", "i", "t", "t", "i", "n", "g">>,
      <<"i", "s", "s", "u", "e", "s">> }

\* the stopwords list written out in visualize_results (twice, the same)
InlineStopwords ==
    { <<"t", "h", "i", "s">>,
      <<"t", "h", "a", "t">>, <<"w", "i", "t", "h">>, <<"f", "r", "o", "m">>,
      <<"h", "a", "v", "e">>, <<"b", "e", "e", "n">>, <<"w", "i", "l", "l">>,
      <<"w", "o", "u", "l", "d">>, <<"c", "o", "u", "l", "d">>, <<"s", "h", "o", "u", "l", "d">>,
      <<"t", "h", "e", "i", "r">>, <<"a", "b", "o", "u", "t">>, <<"t", "h", "e", "r", "e">>,
      <<"t", "h", "e", "s", "e">>, <<"t", "h", "o", "s", "e">>, <<"t", "h", "e", "y">>,
      <<"w", "h", "a", "t">>, <<"w", "h", "e", "n">>, <<"w", "h", "e", "r", "e">>,
      <<"w", "h", "i", "c", "h">>, <<"w", "h", "i", "l", "e">>, <<"y", "o", "u", "r">>,
      <<"s", "a", "i", "d">>, <<"s", "a", "y", "s">>, <<"a", "l", "s", "o">>,
      <<"m", "o", "r", "e">>, <<"s", "o", "m", "e">>, <<"s", "u", "c", "h">>,
      <<"t", "h", "a", "n">>, <<"t", "h", "e", "n">>, <<"t", "h", "e", "m">>,
      <<"w", "e", "r", "e">>, <<"i", "n", "t", "o">>, <<"o", "v", "e", "r">>,
      <<"u", "n", "d", "e", "r">>, <<"a", "g", "a", "i", "n">>,
      <<"f", "u", "r", "t", "h", "e", "r">>, <<"h", "e", "r", "e">>, <<"o", "n", "c", "e">>,
      <<"o", "n", "l", "y">>, <<"v", "e", "r", "y">>, <<"o", "t", "h", "e", "r">>,
      <<"s", "a", "m", "e">>, <<"j", "u", "s", "t">>, <<"m", "o", "s", "t">>,
      <<"b", "o", "t", "h">>, <<"m", "u", "c", "h">>, <<"e", "a", "c", "h">>,
      <<"b", "e", "f", "o", "r", "e">>, <<"a", "f", "t", "e", "r">>, <<"a", "b", "o", "v", "e">>,
      <<"b", "e", "l", "o", "w">>, <<"d", "u", "r", "i", "n", "g">>,
      <<"t", "h", "r", "o", "u", "g", "h">>, <<"b", "e", "t", "w", "e", "e", "n">>,
      <<"s", "i", "n", "c", "e">>, <<"u", "n", "t", "i", "l">>, <<"l", "i", "k", "e">>,
      <<"d", "o", "e", "s">>, <<"d", "o", "i", "n", "g">>, <<"d", "o", "n", "e">>,
      <<"m", "a", "n", "y">>, <<"s", "t", "i", "l", "l">>, <<"e", "v", "e", "n">>,
      <<"m", "a", "k", "e">>, <<"m", "a", "d", "e">>, <<"m", "a", "k", "i", "n", "g">>,
      <<"t", "a", "k", "e">>, <<"t", "a", "k", "i", "n", "g">>, <<"t", "o", "o", "k">>,
      <<"t", "a", "k", "e", "n">>, <<"c", "o", "m", "e">>, <<"c", "o", "m", "e", "s">>,
      <<"c", "o", "m", "i", "n", "g">>, <<"c", "a", "m", "e">>, <<"g", "o", "i", "n", "g">>,
      <<"g", "o", "e", "s">>, <<"w", "e", "n", "t">>, <<"g", "o", "n", "e">>,
      <<"b", "e", "i", "n", "g">>, <<"s", "h", "o", "w">>, <<"s", "h", "o", "w", "s">>,
      <<"s", "h", "o", "w", "e", "d">>, <<"s", "h", "o", "w", "n">>,
      <<"s", "h", "o", "w", "i", "n", "g">>, <<"g", "i", "v", "e">>, <<"g", "i", "v", "e", "s">>,
      <<"g", "i", "v", "i", "n", "g">>, <<"g", "a", "v", "e">>, <<"g", "i", "v", "e", "n">>,
      <<"f", "i", "n", "d">>, <<"f", "i", "n", "d", "s">>, <<"f", "i", "n", "d", "i", "n", "g">>,
      <<"f", "o", "u", "n", "d">>, <<"w", "a", "n", "t">>, <<"w", "a", "n", "t", "s">>,
      <<"w", "a", "n", "t", "i", "n", "g">>, <<"w", "a", "n", "t", "e", "d">>, <<"t", "h", "e">>,
      <<"a", "n", "d">>, <<"b", "u", "t">>, <<"f", "o", "r">>, <<"n", "o", "r">>,
      <<"y", "e", "t">>, <<"s", "o">>, <<"e", "i", "t", "h", "e", "r">>,
      <<"n", "e", "i", "t", "h", "e", "r">>, <<"n", "o", "t">>, <<"a", "l", "l">>,
      <<"a", "n", "y">>, <<"f", "e", "w">>, <<"s", "e", "v", "e", "r", "a", "l">>,
      <<"o", "n", "e">>, <<"t", "w", "o">>, <<"t", "h", "r", "e", "e">>, <<"f", "o", "u", "r">>,
      <<"f", "i", "v", "e">>, <<"s", "i", "x">>, <<"s", "e", "v", "e", "n">>,
      <<"e", "i", "g", "h", "t">>, <<"n", "i", "n", "e">>, <<"t", "e", "n">>,
      <<"f", "i", "r", "s", "t">>, <<"s", "e", "c", "o", "n", "d">>, <<"t", "h", "i", "r", "d">>,
      <<"l", "a", "s", "t">>, <<"n", "e", "x", "t">>, <<"p", "r", "e", "v", "i", "o", "u", "s">>,
      <<"n", "o", "w">>, <<"t", "o", "d", "a", "y">>, <<"t", "o", "m", "o", "r", "r", "o", "w">>,
      <<"y", "e", "s", "t", "e", "r", "d", "a", "y">>, <<"s", "a", "y">>,
      <<"s", "a", "y", "i", "n", "g">>, <<"t", "o", "l", "d">>, <<"t", "e", "l", "l", "s">>,
      <<"t", "e", "l", "l">>, <<"t", "e", "l", "l", "i", "n", "g">>,
      <<"r", "e", "p", "o", "r", "t", "e", "d">>, <<"r", "e", "p", "o", "r", "t", "s">>,
      <<"r", "e", "p", "o", "r", "t">>, <<"r", "e", "p", "o", "r", "t", "i", "n", "g">>,
      <<"s", "t", "a", "t", "e", "d">>, <<"s", "t", "a", "t", "e", "s">>,
      <<"s", "t", "a", "t", "e">>, <<"s", "t", "a", "t", "i", "n", "g">>,
      <<"a", "n", "n", "o", "u", "n", "c", "e", "d">>,
      <<"a", "n", "n", "o", "u", "n", "c", "e", "s">>, <<"a", "n", "n", "o", "u", "n", "c", "e">>,
      <<"a", "n", "n", "o", "u", "n", "c", "i", "n", "g">>, <<"n", "o", "t", "e", "d">>,
      <<"n", "o", "t", "e", "s">>, <<"n", "o", "t", "e">>, <<"n", "o", "t", "i", "n", "g">>,
      <<"i", "m", "a", "g", "e">>, <<"p", "h", "o", "t", "o">>, <<"v", "i", "d", "e", "o">>,
      <<"g", "e", "t", "t", "y">>, <<"r", "e", "u", "t", "e", "r", "s">>, <<"a", "f", "p">>,
      <<"a", "s", "s", "o", "c", "i", "a", "t", "e", "d">>, <<"p", "r", "e", "s", "s">>,
      <<"c", "o", "p", "y", "r", "i", "g", "h", "t">>, <<"r", "i", "g", "h", "t", "s">>,
      <<"r", "e", "s", "e", "r", "v", "e", "d">>, <<"c", "a", "p", "t", "i", "o", "n">>,
      <<"s", "o", "u", "r", "c", "e">>, <<"c", "r", "e", "d", "i", "t">>, <<"f", "i", "l", "e">>,
      <<"p", "i", "c", "t", "u", "r", "e">>, <<"p", "i", "c", "t", "u", "r", "e", "s">>,
      <<"i", "m", "a", "g", "e", "s">>, <<"p", "h", "o", "t", "o", "s">>,
      <<"v", "i", "d", "e", "o", "s">>, <<"a", "r", "t", "i", "c", "l", "e">>,
      <<"s", "t", "o", "r", "y">>, <<"n", "e", "w", "s">>, <<"r", "e", "a", "d">>,
      <<"c", "l", "i", "c", "k">>, <<"l", "i", "n", "k">>, <<"v", "i", "s", "i", "t">>,
      <<"w", "e", "b", "s", "i", "t", "e">>, <<"o", "n", "l", "i", "n", "e">>,
      <<"f", "o", "l", "l", "o", "w">>, <<"t", "w", "i", "t", "t", "e", "r">>,
      <<"f", "a", "c", "e", "b", "o", "o", "k">>, <<"i", "n", "s", "t", "a", "g", "r", "a", "m">>,
      <<"s", "o", "c", "i", "a", "l">>,
      <<"m", "e", "d", "i", "a">> }

\* word_groups of normalize_words: the name of each group and its variations
WordGroups ==
    <<<<<<"e", "c", "o", "n", "o", "m", "i", "c">>, <<<<"e", "c", "o", "n", "o", "m", "y">>, <<"e", "c", "o", "n", "o", "m", "i", "c">>, <<"e", "c", "o", "n", "o", "m", "i", "c", "s">>, <<"e", "c", "o", "n", "o", "m", "i", "c", "a", "l">>, <<"e", "c", "o", "n", "o", "m", "i", "e", "s">>>>>>,
      <<<<"t", "a", "r", "i", "f", "f", "s">>, <<<<"t", "a", "r", "i", "f", "f">>, <<"t", "a", "r", "i", "f", "f", "s">>, <<"t", "a", "r", "i", "f", "f", "i", "n", "g">>>>>>,
      <<<<"t", "r", "u", "m", "p">>, <<<<"t", "r", "u", "m", "p">>, <<"t", "r", "u", "m", "p", "s">>, <<"d", "o", "n", "a", "l", "d">>, <<"d", "o", "n", "a", "l", "d", " ", "t", "r", "u", "m", "p">>>>>>,
      <<<<"m", "a", "r", "k", "e", "t">>, <<<<"m", "a", "r", "k", "e", "t">>, <<"m", "a", "r", "k", "e", "t", "s">>, <<"m", "a", "r", "k", "e", "t", "i", "n", "g">>, <<"m", "a", "r", "k", "e", "t", "p", "l", "a", "c", "e">>>>>>,
      <<<<"b", "u", "s", "i", "n", "e", "s", "s">>, <<<<"b", "u", "s", "i", "n", "e", "s", "s">>, <<"b", "u", "s", "i", "n", "e", "s", "s", "e", "s">>, <<"b", "u", "s", "i", "n", "e", "s", "s", "m", "e", "n">>, <<"b", "u", "s", "i", "n", "e", "s", "s", "p", "e", "o", "p", "l", "e">>>>>>,
      <<<<"g", "l", "o", "b", "a", "l">>, <<<<"g", "l", "o", "b", "a", "l">>, <<"g", "l", "o", "b", "a", "l", "l", "y">>, <<"g", "l", "o", "b", "a", "l", "i", "z", "a", "t", "i", "o", "n">>, <<"g", "l", "o", "b", "a", "l", "i", "z", "i", "n", "g">>, <<"g", "l", "o", "b", "e">>>>>>,
      <<<<"p", "o", "l", "i", "c", "y">>, <<<<"p", "o", "l", "i", "c", "y">>, <<"p", "o", "l", "i", "c", "i", "e", "s">>, <<"p", "o", "l", "i", "c", "y", "m", "a", "k", "e", "r", "s">>, <<"p", "o", "l", "i", "c", "y", "m", "a", "k", "i", "n", "g">>>>>>,
      <<<<"f", "i", "n", "a", "n", "c", "i", "a", "l">>, <<<<"f", "i", "n", "a", "n", "c", "i", "a", "l">>, <<"f", "i", "n", "a", "n", "c", "e">>, <<"f", "i", "n", "a", "n", "c", "i", "a", "l", "l", "y">>, <<"f", "i", "n", "a", "n", "c", "e", "s">>, <<"f", "i", "n", "a", "n", "c", "i", "n", "g">>>>>>,
      <<<<"t", "r", "a", "d", "e">>, <<<<"t", "r", "a", "d", "e">>, <<"t", "r", "a", "d", "e", "s">>, <<"t", "r", "a", "d", "i", "n", "g">>, <<"t", "r", "a", "d", "e", "r">>, <<"t", "r", "a", "d", "e", "r", "s">>>>>>,
      <<<<"i", "n", "f", "l", "a", "t", "i", "o", "n">>, <<<<"i", "n", "f", "l", "a", "t", "i", "o", "n">>, <<"i", "n", "f", "l", "a", "t", "i", "o", "n", "a", "r", "y">>, <<"i", "n", "f", "l", "a", "t", "i", "n", "g">>>>>>,
      <<<<"f", "e", "d", "e", "r", "a", "l">>, <<<<"f", "e", "d", "e", "r", "a", "l">>, <<"f", "e", "d">>, <<"f", "e", "d", "e", "r", "a", "l", "l", "y">>, <<"f", "e", "d", "e", "r", "a", "t", "i", "o", "n">>>>>>,
      <<<<"g", "o", "v", "e", "r", "n", "m", "e", "n", "t">>, <<<<"g", "o", "v", "e", "r", "n", "m", "e", "n", "t">>, <<"g", "o", "v", "e", "r", "n", "m", "e", "n", "t", "s">>, <<"g", "o", "v", "e", "r", "n", "m", "e", "n", "t", "a", "l">>, <<"g", "o", "v", "e", "r", "n", "a", "n", "c", "e">>, <<"g", "o", "v", "e", "r", "n", "i", "n", "g">>>>>>,
      <<<<"p", "o", "l", "i", "t", "i", "c", "a", "l">>, <<<<"p", "o", "l", "i", "t", "i", "c", "a", "l">>, <<"p", "o", "l", "i", "t", "i", "c", "a", "l", "l", "y">>, <<"p", "o", "l", "i", "t", "i", "c", "s">>, <<"p", "o", "l", "i", "t", "i", "c", "i", "a", "n">>, <<"p", "o", "l", "i", "t", "i", "c", "i", "a", "n", "s">>>>>>,
      <<<<"i", "n", "v", "e", "s", "t", "m", "e", "n", "t">>, <<<<"i", "n", "v", "e", "s", "t", "m", "e", "n", "t">>, <<"i", "n", "v", "e", "s", "t", "m", "e", "n", "t", "s">>, <<"i", "n", "v", "e", "s", "t", "i", "n", "g">>, <<"i", "n", "v", "e", "s", "t", "o", "r">>, <<"i", "n", "v", "e", "s", "t", "o", "r", "s">>>>>>,
      <<<<"f", "o", "r", "e", "c", "a", "s", "t">>, <<<<"f", "o", "r", "e", "c", "a", "s", "t">>, <<"f", "o", "r", "e", "c", "a", "s", "t", "s">>, <<"f", "o", "r", "e", "c", "a", "s", "t", "i", "n", "g">>, <<"f", "o", "r", "e", "c", "a", "s", "t", "e", "r">>, <<"f", "o", "r", "e", "c", "a", "s", "t", "e", "r", "s">>>>>>,
      <<<<"i", "m", "p", "a", "c", "t">>, <<<<"i", "m", "p", "a", "c", "t">>, <<"i", "m", "p", "a", "c", "t", "s">>, <<"i", "m", "p", "a", "c", "t", "i", "n", "g">>, <<"i", "m", "p", "a", "c", "t", "e", "d">>>>>>,
      <<<<"r", "e", "p", "o", "r", "t">>, <<<<"r", "e", "p", "o", "r", "t">>, <<"r", "e", "p", "o", "r", "t", "s">>, <<"r", "e", "p", "o", "r", "t", "i", "n", "g">>, <<"r", "e", "p", "o", "r", "t", "e", "d">>>>>>,
      <<<<"r", "e", "s", "e", "a", "r", "c", "h">>, <<<<"r", "e", "s", "e", "a", "r", "c", "h">>, <<"r", "e", "s", "e", "a", "r", "c", "h", "i", "n", "g">>, <<"r", "e", "s", "e", "a", "r", "c", "h", "e", "d">>, <<"r", "e", "s", "e", "a", "r", "c", "h", "e", "r">>, <<"r", "e", "s", "e", "a", "r", "c", "h", "e", "r", "s">>>>>>,
      <<<<"c", "h", "a", "n", "g", "e">>, <<<<"c", "h", "a", "n", "g", "e">>, <<"c", "h", "a", "n", "g", "e", "s">>, <<"c", "h", "a", "n", "g", "i", "n", "g">>, <<"c", "h", "a", "n", "g", "e", "d">>>>>>,
      <<<<"c", "o", "n", "s", "u", "m", "e", "r">>, <<<<"c", "o", "n", "s", "u", "m", "e", "r">>, <<"c", "o", "n", "s", "u", "m", "e", "r", "s">>, <<"c", "o", "n", "s", "u", "m", "p", "t", "i", "o", "n">>, <<"c", "o", "n", "s", "u", "m", "i", "n", "g">>>>>>,
      <<<<"p", "r", "i", "c", "e">>, <<<<"p", "r", "i", "c", "e">>, <<"p", "r", "i", "c", "e", "s">>, <<"p", "r", "i", "c", "i", "n", "g">>, <<"p", "r", "i", "c", "e", "d">>>>>>,
      <<<<"g", "r", "o", "w", "t", "h">>, <<<<"g", "r", "o", "w", "t", "h">>, <<"g", "r", "o", "w", "i", "n", "g">>, <<"g", "r", "o", "w">>, <<"g", "r", "o", "w", "s">>>>>>,
      <<<<"r", "i", "s", "k">>, <<<<"r", "i", "s", "k">>, <<"r", "i", "s", "k", "s">>, <<"r", "i", "s", "k", "y">>, <<"r", "i", "s", "k", "i", "n", "g">>>>>>,
      <<<<"b", "a", "n", "k">>, <<<<"b", "a", "n", "k">>, <<"b", "a", "n", "k", "s">>, <<"b", "a", "n", "k", "i", "n", "g">>, <<"b", "a", "n", "k", "e", "r">>, <<"b", "a", "n", "k", "e", "r", "s">>>>>>,
      <<<<"i", "n", "d", "u", "s", "t", "r", "y">>, <<<<"i", "n", "d", "u", "s", "t", "r", "y">>, <<"i", "n", "d", "u", "s", "t", "r", "i", "e", "s">>, <<"i", "n", "d", "u", "s", "t", "r", "i", "a", "l">>>>>>,
      <<<<"s", "t", "o", "c", "k">>, <<<<"s", "t", "o", "c", "k">>, <<"s", "t", "o", "c", "k", "s">>, <<"s", "t", "o", "c", "k", "m", "a", "r", "k", "e", "t">>>>>>,
      <<<<"i", "n", "t", "e", "r", "e", "s", "t">>, <<<<"i", "n", "t", "e", "r", "e", "s", "t">>, <<"i", "n", "t", "e", "r", "e", "s", "t", "s">>, <<"i", "n", "t", "e", "r", "e", "s", "t", "i", "n", "g">>>>>>,
      <<<<"r", "a", "t", "e">>, <<<<"r", "a", "t", "e">>, <<"r", "a", "t", "e", "s">>, <<"r", "a", "t", "i", "n", "g">>>>>>,
      <<<<"d", "e", "b", "t">>, <<<<"d", "e", "b", "t">>, <<"d", "e", "b", "t", "s">>, <<"d", "e", "b", "t", "o", "r">>, <<"d", "e", "b", "t", "o", "r", "s">>>>>>,
      <<<<"c", "o", "m", "p", "a", "n", "y">>, <<<<"c", "o", "m", "p", "a", "n", "y">>, <<"c", "o", "m", "p", "a", "n", "i", "e", "s">>, <<"c", "o", "r", "p", "o", "r", "a", "t", "i", "o", "n">>, <<"c", "o", "r", "p", "o", "r", "a", "t", "i", "o", "n", "s">>>>>>>>

\* word_mapping.get(word, word): the group of the word, the last group that
\* lists it, or the word itself
WordMappingGet(word) ==
    LET having == {g \in 1..Len(WordGroups) : word \in SeqToSet(WordGroups[g][2])}
    IN  IF having = {} THEN word
        ELSE WordGroups[CHOOSE g \in having : \A h \in having : h <= g][1]

RECURSIVE SumOfCounts(_, _)
SumOfCounts(c, words) ==
    IF words = {} THEN 0
    ELSE LET w == CHOOSE x \in words : TRUE
         IN  c[w] + SumOfCounts(c, words \ {w})

\* what normalize_words files a word under
NormalizedWord(word) == WordMappingGet(CleanAndNormalizeWord(word))

\* normalize_words(word_counts): words of up to two letters after cleaning
\* are dropped, the counts of the words of one name are added
NormalizeWords(c) ==
    LET kept == {w \in DOMAIN c : Len(CleanAndNormalizeWord(w)) > 2}
    IN  [n \in {NormalizedWord(w) : w \in kept} |->
            SumOfCounts(c, {w \in kept : NormalizedWord(w) = n})]

\* for word in stopwords: del counter[word]
WithoutStopwords(c, stopwords) == [w \in DOMAIN c \ stopwords |-> c[w]]

\* 'uncertainty' in context.lower()
MentionsUncertainty(context) == Contains(Lower(context), Uncertainty.s)

\* set(cleaned_words) of one context
ContextWords(context) ==
    LET tokens == SplitWords(context)
        words == SelectSeq([i \in 1..Len(tokens) |-> Lower(tokens[i])],
                           LAMBDA w : Len(w) > 3 /\ w /= Uncertainty.s)
        cleaned == {CleanAndNormalizeWord(words[i]) : i \in 1..Len(words)}
    IN  {w \in cleaned : Len(w) > 2 /\ w \notin GetStopwords}

\* uncertainty_cooccurrences: for each word the contexts with 'uncertainty'
\* that hold it
UncertaintyCooccurrences(contexts) ==
    LET matching == {i \in 1..Len(contexts) : MentionsUncertainty(contexts[i])}
    IN  [w \in UNION {ContextWords(contexts[i]) : i \in matching} |->
            Cardinality({i \in matching : w \in ContextWords(contexts[i])})]

\* pd.to_datetime(mentions_df['date']) on one value of a mention: None and
\* '' are NaT
DateCell(v) == IF v.t = "str" /\ v.s /= <<>> THEN Cell(v.s) ELSE NaN

DatesParse(rows) ==
    \A i \in 1..Len(rows) : ToDatetime(DateCell(rows[i].date)).kind /= "error"

\* sort_values(value, ascending=False) (quicksort, not stable): every
\* descending order of the items, then head(n)
SortDescendingHead(items, n) ==
    {SubSeq(Reorder(items, p), 1, IF n < Len(items) THEN n ELSE Len(items)) :
        p \in {q \in IndexOrders(Len(items)) :
                  \A i \in 1..(Len(items) - 1) : items[q[i]][2] >= items[q[i + 1]][2]}}

\* {word: count for word, count in pairs}
DictOfPairs(pairs) ==
    [w \in {pairs[i][1] : i \in 1..Len(pairs)} |->
        pairs[CHOOSE i \in 1..Len(pairs) :
                 pairs[i][1] = w /\ \A j \in (i + 1)..Len(pairs) : pairs[j][1] /= w][2]]

\* [{'text': word, 'value': count} for word, count in pairs]
ListOfPairs(pairs) == [i \in 1..Len(pairs) |-> Item(pairs[i][1], pairs[i][2])]

\* the rows of cooc_df
CoocRowsOfPairs(pairs) == [i \in 1..Len(pairs) |-> CoocRow(pairs[i][1], pairs[i][2])]

\* the files of stage 1 and stage 2, in the order they are written
VisualizeWrites(word_counts_items, cooc_items, cooc_sorted) ==
    <<FileWrite(WordcloudName, "mapping",
                DictOfPairs(MostCommon(word_counts_items, 100))),
      FileWrite(CoocPattern, "csv", CoocRowsOfPairs(cooc_sorted)),
      FileWrite(CoocName, "csv", CoocRowsOfPairs(cooc_sorted)),
      FileWrite(WordcloudPattern, "list", ListOfPairs(cooc_items)),
      FileWrite(WordcloudName, "list", ListOfPairs(cooc_items))>>

\* visualize_results(mentions_df, word_counts, ...)
VisualizeResults ==
    /\ script_pc = "visualize"
    /\ IF df.rows = <<>>
       THEN \* mentions_df.empty: "No data to process"
            /\ script_pc' = "done"
            /\ UNCHANGED written
       ELSE IF ~DatesParse(df.rows)
       THEN \* pd.to_datetime raises at line 236, before the first try
            /\ script_pc' = "raised"
            /\ UNCHANGED written
       ELSE LET contexts == [i \in 1..Len(df.rows) |-> df.rows[i].context]
                normalized_word_counts ==
                    WithoutStopwords(NormalizeWords(all_terms), InlineStopwords)
                normalized_cooccurrences ==
                    WithoutStopwords(NormalizeWords(UncertaintyCooccurrences(contexts)),
                                     InlineStopwords)
            IN  /\ \E word_counts_items \in ItemOrders(normalized_word_counts),
                      cooc_items \in ItemOrders(normalized_cooccurrences) :
                       \E cooc_sorted \in SortDescendingHead(cooc_items, 50) :
                           written' = written \o
                               VisualizeWrites(word_counts_items, cooc_items,
                                               cooc_sorted)
                /\ script_pc' = "done"
    /\ UNCHANGED <<args, today, word_cloud_data>>
    /\ UNCHANGED <<scanVars, rangeVars, aggVars>>

\* the mention tables and tallies of a call of visualize_results
Markets == <<"m", "a", "r", "k", "e", "t", "s">>
Soon == Str(<<"s", "o", "o", "n">>)

VizContexts ==
    { <<"u", "n", "c", "e", "r", "t", "a", "i", "n", "t", "y", " ", "m", "a", "r", "k", "e", "t", " ", "m", "a", "r", "k", "e", "t", "s">>,
      <<"M", "a", "r", "k", "e", "t", ",", " ", "U", "n", "c", "e", "r", "t", "a", "i", "n", "t", "y", " ", "m", "a", "r", "k", "e", "t">>,
      <<"u", "n", "c", "e", "r", "t", "a", "i", "n", "t", "y", " ", "t", "r", "a", "d", "e", "'", "s", " ", "r", "e", "p", "o", "r", "t", "s">>,
      <<"t", "r", "a", "d", "e", " ", "w", "a", "r", " ", "f", "e", "l", "l">> }

VizMention(date, context) ==
    [date |-> date, url |-> UrlA.s, domain |-> <<"a", ".", "i", "o">>,
     keywords |-> <<Uncertainty.s>>, context |-> context, ngram |-> Uncertainty.s]

VizMentions == {VizMention(d, c) : d \in {Date1, Str(<<>>), Soon}, c \in VizContexts}

VizTallies ==
    { EmptyCounter,
      (Market :> 2) @@ (Markets :> 1) @@ (Fell :> 1),
      (Trade :> 1) @@ (<<"t", "h", "e", "i", "r">> :> 3) @@ (<<"o", "f">> :> 2) }

VisualizeInit ==
    /\ \E rows \in SeqsUpTo(VizMentions, MaxVizMentions) :
           /\ all_mentions = rows
           /\ df = DataFrame(rows)
    /\ all_terms \in VizTallies
    /\ start_date = Midnight(1)
    /\ end_date = Midnight(1)
    /\ current_date = Midnight(2)
    /\ range_pc = "done"
    /\ scanned = <<>>
    /\ day_outcomes = <<>>
    /\ ok_mentions = <<>>
    /\ ok_terms = EmptyCounter
    /\ day_results = <<>>
    /\ script_pc = "visualize"
    /\ args = NoArgs
    /\ today = 0
    /\ written = <<>>
    /\ word_cloud_data = <<>>

-----------------------------------------------------------------------------
(* End to end: scan feed files, write each result as a raw mention file,
   aggregate *)

GoodFile(lines) == [fetch |-> "ok", lines |-> lines, gzip_error |-> FALSE]

TaxCut == Str(<<"t", "a", "x", " ", "c", "u", "t">>)

\* synthetic feed files: one matching record each under three urls (one of
\* them without a date), one with the url of another file, one with two
\* matching records, one with none, and one the feed does not serve
FeedFiles ==
    { GoodFile(<<Rec(En, UrlA, Uncertainty, MarketFell, Absent, Date1)>>),
      GoodFile(<<NonDict, Rec(En, UrlB, Uncertainty, MarketFell, Absent, Date1)>>),
      GoodFile(<<Rec(En, UrlC, Uncertainty, Absent, TaxCut, Absent), BadJson>>),
      GoodFile(<<Rec(En, UrlA, Str(<<"U", "n", "c", "e", "r", "t", "a", "i", "n", "t", "y">>), MarketFell, Absent, Date1)>>),
      GoodFile(<<Rec(En, UrlA, Uncertainty, Absent, TaxCut, Date2),
                 Rec(En, UrlB, Uncertainty, Absent, TaxCut, Date2)>>),
      GoodFile(<<Rec(En, UrlB, Str(<<"t", "r", "a", "d", "e", " ", "w", "a", "r">>), MarketFell, Absent, Date2)>>),
      [fetch |-> "non_200", lines |-> <<>>, gzip_error |-> FALSE] }

\* the text to_csv writes for the date of a mention (None: an empty field)
DateText(v) == IF v.t = "str" THEN v.s ELSE <<>>

\* mentions_df.to_csv(mentions_file) as read_csv finds it: a table without
\* rows or columns is a file read_csv rejects
ToRawMentionsFile(mentions) ==
    IF mentions = <<>> THEN Unreadable
    ELSE Table([i \in 1..Len(mentions) |->
                   MentionRow(CsvRoundTrip(DateText(mentions[i].date)),
                              CsvRoundTrip(mentions[i].url),
                              CsvRoundTrip(mentions[i].context),
                              CsvRoundTrip(mentions[i].ngram))])

\* one run: scan a feed file and write what the scan returned to raw_dir
ScanAndWriteRaw ==
    /\ mentions_status = "idle"
    /\ Len(raw_mentions) < MaxRawFiles
    /\ \E file \in FeedFiles :
          LET r == ScanFile(keywords, file)
          IN  /\ raw_mentions' = Append(raw_mentions, ToRawMentionsFile(r.mentions))
              /\ scanned_files' = Append(scanned_files, file)
    /\ UNCHANGED <<mentions_file, mentions_status, raw_cooc, cooc_file, cooc_status>>
    /\ UNCHANGED <<scanVars, rangeVars, wcVars, dirVars, scriptVars>>

-----------------------------------------------------------------------------
(* Specifications *)

ReadLine == ReadLineFrom(Lines, MaxLines)

ReadLongLine == ReadLineFrom(LongRecords, MaxLongLines)

Init == ScanInitWith(KeywordArgs, TargetDomainArgs) /\ RangeIdle /\ AggIdle /\ ScriptIdle

Next == FetchFails \/ FetchOk \/ ReadLine \/ EndOfStream \/ GzipError

Spec == Init /\ [][Next]_vars

\* the same call over records with long contexts
NextContext == FetchFails \/ FetchOk \/ ReadLongLine \/ EndOfStream \/ GzipError

SpecContext == Init /\ [][NextContext]_vars

\* process_date_range over a feed
InitRange == ScanInitWith({<<>>}, {<<>>}) /\ RangeInit /\ AggIdle /\ ScriptIdle

NextRange == ScanDay \/ RangeReturn

SpecRange == InitRange /\ [][NextRange]_vars

\* the same call, which goes on as long as it has a step to take
SpecRangeFair == SpecRange /\ WF_vars(NextRange)

\* aggregate_mentions over a raw directory
InitAgg == ScanInitWith({<<>>}, {<<>>}) /\ RangeIdle /\ AggIdle /\ ScriptIdle

NextAggMentions == AddRawMentions \/ AggregateMentions

SpecAggMentions == InitAgg /\ [][NextAggMentions]_vars

\* aggregate_cooccurrences over a raw directory
NextAggCooc == AddRawCooc \/ AggregateCooccurrences

SpecAggCooc == InitAgg /\ [][NextAggCooc]_vars

\* scans written to the raw directory, then aggregate_mentions
NextEndToEnd == ScanAndWriteRaw \/ AggregateMentions

\* aggregate_wordcloud over a raw directory
NextAggWordcloud == AddRawWordcloud \/ AggregateWordcloud

SpecAggWordcloud == InitAgg /\ [][NextAggWordcloud]_vars

\* main of aggregate_outputs.py
InitMain == ScanInitWith({<<>>}, {<<>>}) /\ RangeIdle /\ MainInit /\ ScriptIdle

NextMain == AggregateMentions \/ MainCooccurrences \/ MainWordcloud

SpecMain == InitMain /\ [][NextMain]_vars

\* the script run, and run again
InitRerun == ScanInitWith({<<>>}, {<<>>}) /\ RangeIdle /\ RerunInit /\ ScriptIdle

NextRerun == AggregateMentions \/ MainCooccurrences \/ MainWordcloud \/ RunAgain

SpecRerun == InitRerun /\ [][NextRerun]_vars

\* one call of generate_word_cloud_data
InitWordCloud == ScanInitWith({<<>>}, {<<>>}) /\ RangeIdle /\ AggIdle /\ WordCloudInit

NextWordCloud == GenerateWordCloudData

SpecWordCloud == InitWordCloud /\ [][NextWordCloud]_vars

\* the streaming module run as a script, or driven by a caller
InitStream == ScanInitWith({<<>>}, {<<>>}) /\ RangeIdle /\ AggIdle /\ StreamInit

NextStream == StreamMain \/ CallPreviousDays \/ ScanDay \/ RangeReturn \/ SaveResults

SpecStream == InitStream /\ [][NextStream]_vars

\* the analysis script
InitAnalyze ==
    ScanInitWith({<<Uncertainty.s>>}, {<<>>}) /\ RangeIdle /\ AggIdle /\ AnalyzeInit

NextAnalyze == AnalyzeMain \/ ScanDay \/ RangeReturn \/ AnalyzeSave \/ VisualizeResults

SpecAnalyze == InitAnalyze /\ [][NextAnalyze]_vars

\* one call of visualize_results
InitVisualize == ScanInitWith({<<>>}, {<<>>}) /\ AggIdle /\ VisualizeInit

NextVisualize == VisualizeResults

SpecVisualize == InitVisualize /\ [][NextVisualize]_vars

SpecEndToEnd == InitAgg /\ [][NextEndToEnd]_vars

-----------------------------------------------------------------------------
(* Properties of the scanner *)

\* the keywords as configured: the constructor's argument, or the default
Configured == IF kwarg = <<>> THEN DEFAULT_KEYWORDS ELSE kwarg

IsSingleWord(k) == \A i \in 1..Len(k) : k[i] /= " "

\* a record with lang 'en' and a non-empty url
Eligible(ln) ==
    /\ ln.kind = "record"
    /\ ln.lang = En
    /\ ln.url.t = "str"
    /\ ln.url.s /= <<>>

\* the lower-cased ngram field of a record ('' when the field is absent);
\* a field that is no text equals no keyword and contains none
NgramIs(ln, text) == Get(ln.ngram).t = "str" /\ Lower(Get(ln.ngram).s) = text
NgramHas(ln, text) == Get(ln.ngram).t = "str" /\ Contains(Lower(Get(ln.ngram).s), text)

\* this step read one line
ReadsLine == line_count' = line_count + 1

\* this step appended a mention
MentionAdded == Len(uncertainty_mentions') = Len(uncertainty_mentions) + 1

\* this step appended a mention for keyword k
MentionAddedFor(k) ==
    /\ MentionAdded
    /\ uncertainty_mentions'[Len(uncertainty_mentions')].keywords = <<Lower(k)>>

\* C1: for a record with lang 'en' and a non-empty url and a configured keyword
\* k without a space, the record yields a mention for k if and only if the
\* lower-cased ngram equals lower-cased k; an ngram that only contains k does not.
C1_SingleWordExact ==
    [][(ReadsLine /\ Eligible(line')) =>
        \A k \in SeqToSet(Configured) :
            IsSingleWord(k) => (MentionAddedFor(k) <=> NgramIs(line', Lower(k)))]_vars

\* 'Uncertainty' matched the keyword, and 'economic uncertainty' after it did not
C1_Witness ==
    /\ kwarg = <<>>
    /\ line_count = 2
    /\ Eligible(line)
    /\ line.ngram = Str(<<"e", "c", "o", "n", "o", "m", "i", "c", " ", "u", "n", "c", "e", "r", "t", "a", "i", "n", "t", "y">>)
    /\ Len(uncertainty_mentions) = 1
    /\ uncertainty_mentions[1].keywords = DEFAULT_KEYWORDS

\* C2: for a record with lang 'en' and a non-empty url and a configured keyword
\* k with a space: when lower-cased k is a contiguous substring of the
\* lower-cased ngram the record yields a mention, and a mention for k is only
\* ever yielded then, whatever the letter case of k and of the ngram.
C2_MultiWordSubstring ==
    [][(ReadsLine /\ Eligible(line')) =>
        \A k \in SeqToSet(Configured) :
            ~IsSingleWord(k) =>
                /\ NgramHas(line', Lower(k)) => MentionAdded
                /\ MentionAddedFor(k) => NgramHas(line', Lower(k))
                /\ Len(Configured) = 1 => (MentionAddedFor(k) <=> NgramHas(line', Lower(k)))]_vars

\* keyword 'Trade War' matched the ngram 'the Trade War'
C2_Witness ==
    /\ kwarg = <<<<"T", "r", "a", "d", "e", " ", "W", "a", "r">>>>
    /\ line_count = 1
    /\ Eligible(line)
    /\ line.ngram = Str(<<"t", "h", "e", " ", "T", "r", "a", "d", "e", " ", "W", "a", "r">>)
    /\ Len(uncertainty_mentions) = 1
    /\ uncertainty_mentions[1].keywords = <<<<"t", "r", "a", "d", "e", " ", "w", "a", "r">>>>

\* lang is missing or differs from 'en', or url is missing or empty
Ineligible(ln) ==
    /\ ln.kind = "record"
    /\ \/ ln.lang /= En
       \/ ln.url \in {Absent, Null, Str(<<>>)}

\* C3: a record whose lang is missing or not 'en', or whose url is missing or
\* empty, adds no mention and changes no count, even when its ngram matches.
C3_SkipsIneligible ==
    [][(ReadsLine /\ Ineligible(line')) =>
        /\ uncertainty_mentions' = uncertainty_mentions
        /\ co_occurring_terms' = co_occurring_terms]_vars

\* a matching English record with an empty url was read after a mention and a
\* count had been gathered
C3_Witness ==
    /\ line_count = 2
    /\ line.lang = En
    /\ line.url = Str(<<>>)
    /\ NgramIs(line, <<"u", "n", "c", "e", "r", "t", "a", "i", "n", "t", "y">>)
    /\ <<"u", "n", "c", "e", "r", "t", "a", "i", "n", "t", "y">> \in SeqToSet(keywords)
    /\ Len(uncertainty_mentions) = 1
    /\ co_occurring_terms /= EmptyCounter

\* the stripped string 'pre ngram post' of a record (the ngram lower-cased,
\* as the scanner holds it)
StrippedContext(ln) ==
    Strip(PyStr(Get(ln.pre)) \o <<" ">> \o Lower(Get(ln.ngram).s) \o <<" ">>
          \o PyStr(Get(ln.post)))

\* C6: every mention's context has at most 500 characters; it is the first 500
\* characters of the stripped 'pre ngram post' when that is longer, and that
\* string unchanged when it is not.
C6_ContextTruncated ==
    [][(ReadsLine /\ MentionAdded) =>
        LET full    == StrippedContext(line')
            context == uncertainty_mentions'[Len(uncertainty_mentions')].context
        IN  /\ \A i \in 1..Len(uncertainty_mentions') :
                   Len(uncertainty_mentions'[i].context) <= ContextLimit
            /\ Len(full) > ContextLimit =>
                   /\ Len(context) = ContextLimit
                   /\ context = SubSeq(full, 1, ContextLimit)
            /\ Len(full) <= ContextLimit => context = full]_vars

\* a 501-character context was cut to 500 after a 500-character one was kept
C6_Witness ==
    /\ line_count = 2
    /\ Len(uncertainty_mentions) = 2
    /\ Len(StrippedContext(line)) = ContextLimit + 1
    /\ Len(uncertainty_mentions[2].context) = ContextLimit
    /\ Len(uncertainty_mentions[1].context) = ContextLimit
    /\ uncertainty_mentions[1].context /= uncertainty_mentions[2].context

\* C10: a line that is not valid JSON does not abort the scan, and what the
\* call returns at the end of the stream is what the same stream without its
\* malformed lines returns.
C10_MalformedLineSkipped ==
    /\ line.kind = "badjson" => outcome /= "aborted"
    /\ (pc = "returned" /\ outcome = "eof") =>
           /\ result.mentions = ref_mentions
           /\ result.terms = ref_terms

\* a malformed line was read after a mention and a count had been gathered,
\* and the call returned them
C10_Witness ==
    /\ pc = "returned"
    /\ outcome = "eof"
    /\ line.kind = "badjson"
    /\ line_count = 2
    /\ Len(result.mentions) = 1
    /\ result.terms /= EmptyCounter

\* the handler this step's line ends in
HandlerOf(ln) == ProcessLine(keywords, ln, uncertainty_mentions, co_occurring_terms).error

\* C11: a record whose processing raises an exception leaves the mention list
\* and the co-occurrence tally exactly as they were before it.
C11_RaisingRecordContributesNothing ==
    [][(ReadsLine /\ HandlerOf(line') = "record") =>
           /\ uncertainty_mentions' = uncertainty_mentions
           /\ co_occurring_terms' = co_occurring_terms]_vars

\* C12: when the request raises a transport error or the status is not 200,
\* the call returns an empty mention list and an empty tally and raises nothing.
C12_FetchFailureReturnsEmpty ==
    (pc = "returned" /\ outcome \in {"request_exception", "non_200"}) =>
        /\ result.mentions = <<>>
        /\ result.terms = EmptyCounter
        /\ ~result.raised

\* the call has returned after a status other than 200
C12_Witness ==
    /\ pc = "returned"
    /\ outcome = "non_200"
    /\ line_count = 0
    /\ result.mentions = <<>>

\* the tokens of a text field: its runs of non-blank characters ('' for a
\* field that is absent)
TokensOf(v) == IF Get(v).t = "str" THEN SplitWords(Get(v).s) ELSE <<>>

\* how many of the tokens have w as their lower-cased form
RECURSIVE Occurrences(_, _)
Occurrences(tokens, w) ==
    IF tokens = <<>> THEN 0
    ELSE (IF Lower(Head(tokens)) = w THEN 1 ELSE 0) + Occurrences(Tail(tokens), w)

\* the first configured keyword, in configured order, that matches the
\* record's ngram: equal to it (no space in the keyword) or contained in it
FirstMatch(ln) ==
    LET hit(i) == IF IsSingleWord(Configured[i])
                  THEN NgramIs(ln, Lower(Configured[i]))
                  ELSE NgramHas(ln, Lower(Configured[i]))
        first  == CHOOSE i \in 1..Len(Configured) :
                      hit(i) /\ \A j \in 1..(i - 1) : ~hit(j)
    IN  Lower(Configured[first])

\* C19: a record adds at most one mention, also when several keywords match;
\* the mention's keywords field holds one keyword, the first in configured
\* order that matches; and no word's count grows by more than its number of
\* occurrences in pre and post (the tally is updated at most once).
C19_OneMentionPerRecord ==
    [][ReadsLine =>
           /\ Len(uncertainty_mentions') <= Len(uncertainty_mentions) + 1
           /\ MentionAdded =>
                  /\ SubSeq(uncertainty_mentions', 1, Len(uncertainty_mentions))
                         = uncertainty_mentions
                  /\ uncertainty_mentions'[Len(uncertainty_mentions')].keywords
                         = <<FirstMatch(line')>>
           /\ \A w \in DOMAIN co_occurring_terms' :
                  Count(co_occurring_terms', w) - Count(co_occurring_terms, w)
                      <= Occurrences(TokensOf(line'.pre) \o TokensOf(line'.post), w)]_vars

\* a record whose ngram two configured keywords match has been read: one
\* mention, for the keyword configured first, and each word counted once
C19_Witness ==
    /\ Len(kwarg) = 3
    /\ line_count = 1
    /\ NgramIs(line, <<"t", "r", "a", "d", "e", " ", "w", "a", "r", " ", "o", "n">>)
    /\ Len(uncertainty_mentions) = 1
    /\ uncertainty_mentions[1].keywords = <<<<"t", "r", "a", "d", "e", " ", "w", "a", "r">>>>
    /\ Count(co_occurring_terms, <<"m", "a", "r", "k", "e", "t">>) = 1

\* the words the tally may count: longer than 3 characters, lower-cased, in
\* neither the stopword list nor the configured keywords
Countable(w) ==
    /\ Len(w) > 3
    /\ w \notin SeqToSet(ScannerStopwords)
    /\ \A i \in 1..Len(Configured) : w /= Lower(Configured[i])

\* the lower-cased tokens of pre and post of a line
LoweredTokens(ln) ==
    {Lower(t) : t \in SeqToSet(TokensOf(ln.pre) \o TokensOf(ln.post))}

\* pre and post are text, or absent
TextContext(ln) == Get(ln.pre).t = "str" /\ Get(ln.post).t = "str"

C24_OnlyTargetDomains ==
    [][(ReadsLine /\ MentionAdded /\ target_domains /= <<>>) =>
           uncertainty_mentions'[Len(uncertainty_mentions')].domain
               \in SeqToSet(target_domains)]_vars

\* C27: when reading the gzip stream fails after lines have been processed,
\* the call returns an empty mention list and an empty tally, whatever those
\* lines had yielded, and raises nothing.
C27_StreamFailureDiscardsAll ==
    (pc = "returned" /\ outcome = "gzip_error") =>
        result = [mentions |-> <<>>, terms |-> EmptyCounter, raised |-> FALSE]

\* the stream failed after two lines that had yielded two mentions and counts
C27_Witness ==
    /\ pc = "returned"
    /\ outcome = "gzip_error"
    /\ line_count = 2
    /\ Len(uncertainty_mentions) = 2
    /\ co_occurring_terms /= EmptyCounter
    /\ result.mentions = <<>>
    /\ result.terms = EmptyCounter

-----------------------------------------------------------------------------
(* Properties of the date-range driver *)

\* the days from the start date to the end date, each at 00:01:00
DaysOfRange ==
    [i \in 1..(end_date.day - start_date.day + 1) |->
        [day |-> start_date.day + i - 1, tod |-> MarkerTod]]

\* C8: when the calendar date of start is not after that of end, the scanner
\* is invoked exactly once for every day from the start date to the end date
\* inclusive, in ascending order, at 00:01:00 of that day, and for no other day.
C8_EveryDayScannedOnce ==
    (range_pc = "done" /\ start_date.day <= end_date.day) => scanned = DaysOfRange

\* C9: a failed scan does not end the loop, and the table and tally returned
\* are those of the scans that did not fail.
C9_FailedDayDoesNotHalt ==
    /\ range_pc /= "raised"
    /\ range_pc = "done" =>
           /\ ~DtLeq(current_date, end_date)
           /\ Len(scanned) = current_date.day - start_date.day
           /\ all_mentions = ok_mentions
           /\ all_terms = ok_terms

\* the first day failed, the next was scanned and its mention returned
C9_Witness ==
    /\ range_pc = "done"
    /\ day_outcomes = <<"failed", "ok">>
    /\ Len(scanned) = 2
    /\ Len(all_mentions) = 1
    /\ all_terms /= EmptyCounter

\* the mention lists of the scans, one after the other in day order
RECURSIVE DayMentions(_)
DayMentions(results) ==
    IF results = <<>> THEN <<>>
    ELSE Head(results).mentions \o DayMentions(Tail(results))

\* the sum of a word's counts in the tallies of the scans
RECURSIVE DayCount(_, _)
DayCount(results, w) ==
    IF results = <<>> THEN 0
    ELSE Count(Head(results).terms, w) + DayCount(Tail(results), w)

\* C18: the table returned holds the rows of the per-day mention lists, in
\* day order, none dropped, merged or reordered; and every word's count in
\* the tally returned is the sum of its counts in the per-day tallies.
C18_RangeConcatenatesAndSums ==
    range_pc = "done" =>
        /\ Len(day_results) = Len(scanned)
        /\ df.rows = DayMentions(day_results)
        /\ \A w \in DOMAIN all_terms \cup
                    UNION {DOMAIN day_results[i].terms : i \in 1..Len(day_results)} :
               Count(all_terms, w) = DayCount(day_results, w)

\* three days were scanned; the first two returned different mentions and the
\* third the first one again, and two words were counted on each
C18_Witness ==
    /\ range_pc = "done"
    /\ Len(day_results) = 3
    /\ Len(df.rows) = 3
    /\ df.rows[1] /= df.rows[2]
    /\ df.rows[1] = df.rows[3]
    /\ Count(all_terms, <<"m", "a", "r", "k", "e", "t">>) = 3

\* start_date > end_date, as datetimes
StartAfterEnd ==
    \/ start_date.day > end_date.day
    \/ (start_date.day = end_date.day /\ start_date.tod > end_date.tod)

\* the whole days from start_date to end_date (when start is not after end)
FullDaysBetween ==
    end_date.day - start_date.day - (IF end_date.tod < start_date.tod THEN 1 ELSE 0)

-----------------------------------------------------------------------------
(* Properties of the aggregators *)

\* the (date, url, context) triple of a mention row
MentionKey(row) == <<row.date, row.url, row.context>>

\* the triples of the rows of the readable raw files
RawMentionKeys ==
    {MentionKey(f.rows[i]) : <<f, i>> \in
        {<<g, j>> \in SeqToSet(raw_mentions) \X (1..MaxRawRows + 1) :
            g.readable /\ j <= Len(g.rows)}}

GoodMentionFiles == SelectSeq(raw_mentions, LAMBDA f : f.readable /\ f.shaped)

\* the (date, url, context) triples of their rows
GoodMentionKeys ==
    {MentionKey(r) : r \in SeqToSet(Concat([i \in 1..Len(GoodMentionFiles) |->
                                                GoodMentionFiles[i].rows]))}

\* C13: a raw file that cannot be read or has not the expected columns adds
\* nothing and does not abort the run: aggregate_mentions raises only over a
\* date of a well-formed file, and its output holds the rows of the
\* well-formed files and no other.
C13_BadFileContributesNothing ==
    /\ mentions_status = "raised" =>
           \E k \in GoodMentionKeys : ~k[1].na /\ ~IsIsoDate(k[1].s)
    /\ mentions_status = "written" =>
           {MentionKey(r) : r \in SeqToSet(mentions_file.rows)} = GoodMentionKeys

\* the date-time of a row's date field (0 for a field that holds none)
DateTimeOf(row) == IF row.date.na THEN 0 ELSE IsoOrdinal(row.date.s)

\* C15: the rows of the combined mention output are in non-decreasing order
\* of their date, whatever the order in which the raw files were read (rows
\* without a date come after the dated ones).
C15_MentionsSortedByDate ==
    mentions_status = "written" =>
        LET out == mentions_file.rows
        IN  \A i, j \in 1..Len(out) :
                i < j => \/ out[j].date.na
                         \/ (~out[i].date.na /\ DateTimeOf(out[i]) <= DateTimeOf(out[j]))

\* the later date was read first, from the first file, and a row without a
\* date before a dated one: the output starts with the earlier date and ends
\* with the row without a date
C15_Witness ==
    /\ mentions_status = "written"
    /\ Len(raw_mentions) = 2
    /\ Len(raw_mentions[1].rows) = 2
    /\ raw_mentions[1].rows[1].date = Cell(Date2.s)
    /\ raw_mentions[1].rows[2].date = NaN
    /\ Len(raw_mentions[2].rows) = 1
    /\ raw_mentions[2].rows[1].date = Cell(Date1.s)
    /\ Len(mentions_file.rows) = 3
    /\ mentions_file.rows[1].date = Cell(Date1.s)
    /\ mentions_file.rows[3].date = NaN

\* the raw co-occurrence files that are read and have the two columns, and
\* the raw word-cloud files that are lists of {text, value} entries
GoodCoocFiles == SelectSeq(raw_cooc, LAMBDA f : f.readable /\ f.shaped)

GoodWordcloudFiles ==
    SelectSeq(raw_wordcloud,
              LAMBDA f : /\ f.kind = "list"
                         /\ \A i \in 1..Len(f.items) : DOMAIN f.items[i] = {"text", "value"})

\* the words they list
RawCoocWords ==
    UNION {{f.rows[i].word : i \in 1..Len(f.rows)} : f \in SeqToSet(GoodCoocFiles)}

RawWordcloudWords ==
    UNION {{f.items[i].text : i \in 1..Len(f.items)} : f \in SeqToSet(GoodWordcloudFiles)}

\* C14: after a run, each combined file holds the merge of the raw files
\* present at that run, and nothing of an earlier run, also when the raw
\* directory holds no file, or no readable file, of its kind.
C14_OutputsOverwritten ==
    /\ mentions_status \in {"no_files", "no_valid", "written"} =>
           {MentionKey(r) : r \in SeqToSet(mentions_file.rows)} = RawMentionKeys
    /\ cooc_status \in {"no_files", "no_valid", "written"} =>
           {r.word : r \in SeqToSet(cooc_file.rows)} = RawCoocWords
    /\ wordcloud_status \in {"no_files", "no_valid", "written"} =>
           {r.text : r \in SeqToSet(wordcloud_file.rows)} = RawWordcloudWords

\* C16: the combined co-occurrence output and the combined word-cloud output
\* each list every word of the raw files exactly once, in non-increasing
\* order of count.
C16_WordsOnceDescending ==
    /\ cooc_status = "written" =>
           LET out == cooc_file.rows
           IN  /\ {out[i].word : i \in 1..Len(out)} = RawCoocWords
               /\ \A i, j \in 1..Len(out) : out[i].word = out[j].word => i = j
               /\ \A i, j \in 1..Len(out) : i < j => out[i].count >= out[j].count
    /\ wordcloud_status = "written" =>
           LET out == wordcloud_file.rows
           IN  /\ {out[i].text : i \in 1..Len(out)} = RawWordcloudWords
               /\ \A i, j \in 1..Len(out) : out[i].text = out[j].text => i = j
               /\ \A i, j \in 1..Len(out) : i < j => out[i].value >= out[j].value

\* both outputs were written from two files that list a word twice; the word
\* listed first in the raw files comes second in both outputs
C16_Witness ==
    /\ cooc_status = "written"
    /\ wordcloud_status = "written"
    /\ Len(GoodCoocFiles) = 2
    /\ Len(GoodWordcloudFiles) = 2
    /\ GoodCoocFiles[1].rows[1].word = Market
    /\ GoodWordcloudFiles[1].items[1].text = Market
    /\ cooc_file.rows = <<CoocRow(Trade, 4), CoocRow(Market, 2)>>
    /\ wordcloud_file.rows = <<Item(Trade, 4), Item(Market, 2)>>

\* every entry of every readable raw word-cloud file
AllWordcloudItems ==
    Concat([i \in 1..Len(GoodWordcloudFiles) |-> GoodWordcloudFiles[i].items])

RECURSIVE SumValues(_, _)
\* the sum of the values the entries list for word w
SumValues(items, w) ==
    IF items = <<>> THEN 0
    ELSE (IF Head(items).text = w THEN Head(items).value ELSE 0)
             + SumValues(Tail(items), w)

\* C17: after aggregate_wordcloud the output value of every word is the sum
\* of all the values listed for it in the entries of all readable raw files,
\* and the output words are the union of the words of those files.
C17_WordcloudValuesSummed ==
    wordcloud_status = "written" =>
        /\ \A i \in 1..Len(wordcloud_file.rows) :
               wordcloud_file.rows[i].value
                   = SumValues(AllWordcloudItems, wordcloud_file.rows[i].text)
        /\ {wordcloud_file.rows[i].text : i \in 1..Len(wordcloud_file.rows)}
               = RawWordcloudWords

\* a combined count file as a word -> count mapping
CoocMapping(file) ==
    [w \in {file.rows[i].word : i \in 1..Len(file.rows)} |->
        (CHOOSE r \in SeqToSet(file.rows) : r.word = w).count]

WordcloudMapping(file) ==
    [w \in {file.rows[i].text : i \in 1..Len(file.rows)} |->
        (CHOOSE r \in SeqToSet(file.rows) : r.text = w).value]

\* the keys aggregate_mentions keeps of the files read in this order
KeysKept(files) ==
    LET kept == DropDuplicates(Concat(ReadableTables(files)))
    IN  {MentionKey(kept[i].row) : i \in 1..Len(kept)}

\* C29: whatever the order in which the raw files are read, the two count
\* aggregators give the same word -> count mapping and aggregate_mentions
\* gives the same set of (date, url, context) keys.
C29_OrderIndependent ==
    /\ cooc_status = "written" =>
           \A p \in IndexOrders(Len(raw_cooc)) :
               MergeCoocFiles(EmptyCounter, Reorder(raw_cooc, p)) = CoocMapping(cooc_file)
    /\ wordcloud_status = "written" =>
           \A p \in IndexOrders(Len(raw_wordcloud)) :
               MergeWordcloudFiles(EmptyCounter, Reorder(raw_wordcloud, p))
                   = WordcloudMapping(wordcloud_file)
    /\ mentions_status = "written" =>
           \A p \in IndexOrders(Len(raw_mentions)) :
               KeysKept(Reorder(raw_mentions, p))
                   = {MentionKey(r) : r \in SeqToSet(mentions_file.rows)}

\* the three outputs were written, each from two different files that list
\* a word, or a key, in common
C29_Witness ==
    /\ mentions_status = "written"
    /\ cooc_status = "written"
    /\ wordcloud_status = "written"
    /\ Len(GoodMentionFiles) = 2 /\ GoodMentionFiles[1] /= GoodMentionFiles[2]
    /\ Len(GoodCoocFiles) = 2 /\ GoodCoocFiles[1] /= GoodCoocFiles[2]
    /\ Len(GoodWordcloudFiles) = 2 /\ GoodWordcloudFiles[1] /= GoodWordcloudFiles[2]
    /\ Len(mentions_file.rows) = 3
    /\ CoocMapping(cooc_file)[Market] = 3
    /\ WordcloudMapping(wordcloud_file)[Market] = 3

\* C23: what a run writes is a function of the raw files only: a second run
\* over the unchanged raw directory reads the same raw files, never a
\* combined file (also when both directories are one), and each file it
\* writes holds what the first run wrote, whatever the file held before.
C23_RecomputedFromRawFiles ==
    runs >= 2 =>
        /\ raw_mentions = first_run.raw_mentions
        /\ raw_cooc = first_run.raw_cooc
        /\ raw_wordcloud = first_run.raw_wordcloud
        /\ mentions_status = "written" =>
               /\ SeqToSet(mentions_file.rows) = SeqToSet(first_run.mentions_file.rows)
               /\ {MentionKey(r) : r \in SeqToSet(mentions_file.rows)}
                      = KeysKept(first_run.raw_mentions)
        /\ cooc_status = "written" =>
               /\ CoocMapping(cooc_file) = CoocMapping(first_run.cooc_file)
               /\ CoocMapping(cooc_file)
                      = MergeCoocFiles(EmptyCounter, first_run.raw_cooc)
        /\ wordcloud_status = "written" =>
               /\ wordcloud_file = first_run.wordcloud_file
               /\ WordcloudMapping(wordcloud_file)
                      = MergeWordcloudFiles(EmptyCounter, first_run.raw_wordcloud)

\* raw_dir is output_dir and held combined files of an earlier run; the
\* second run has written its three files again, from two raw files each
C23_Witness ==
    /\ runs = 2
    /\ same_dir
    /\ mentions_status = "written"
    /\ cooc_status = "written"
    /\ wordcloud_status = "written"
    /\ Len(raw_mentions) = 2
    /\ Len(GoodCoocFiles) = 2
    /\ Len(GoodWordcloudFiles) = 2
    /\ first_run.cooc_file.exists
    /\ CoocMapping(cooc_file)[Trade] = 4

RECURSIVE SumCounts(_, _)
\* the sum of the counts the rows list for word w
SumCounts(rows, w) ==
    IF rows = <<>> THEN 0
    ELSE (IF Head(rows).word = w THEN Head(rows).count ELSE 0) + SumCounts(Tail(rows), w)

\* every row of every readable raw co-occurrence file
AllCoocRows == Concat(ReadableTables(raw_cooc))

\* C5: after aggregate_cooccurrences the output count of every word is the sum
\* of all the counts listed for it in all readable raw files, a later file or
\* a later row never replacing an earlier count.
C5_CountsSummed ==
    cooc_status = "written" =>
        /\ \A i \in 1..Len(cooc_file.rows) :
               cooc_file.rows[i].count = SumCounts(AllCoocRows, cooc_file.rows[i].word)
        /\ \A i \in 1..Len(AllCoocRows) :
               \E j \in 1..Len(cooc_file.rows) : cooc_file.rows[j].word = AllCoocRows[i].word

\* a feed file's records that match the keywords
MatchingRecords(file) ==
    SelectSeq(file.lines,
              LAMBDA ln : Eligible(ln) /\ \E k \in SeqToSet(Configured) :
                              IF IsSingleWord(k) THEN NgramIs(ln, Lower(k))
                              ELSE NgramHas(ln, Lower(k)))

\* every scanned file holds exactly one matching record, and their urls differ
OneMatchEachDistinctUrls ==
    /\ \A i \in 1..Len(scanned_files) : Len(MatchingRecords(scanned_files[i])) = 1
    /\ \A i, j \in 1..Len(scanned_files) :
           MatchingRecords(scanned_files[i])[1].url = MatchingRecords(scanned_files[j])[1].url
               => i = j

\* C7: end to end, N feed files with exactly one matching record each, under
\* pairwise distinct urls, give a merged mention output of exactly N rows.
C7_EndToEndRowCount ==
    (mentions_status = "written" /\ OneMatchEachDistinctUrls) =>
        Len(mentions_file.rows) = Len(scanned_files)

\* two files, the same date and context under two urls: two rows
C7_Witness ==
    /\ mentions_status = "written"
    /\ Len(scanned_files) = 2
    /\ OneMatchEachDistinctUrls
    /\ Len(mentions_file.rows) = 2
    /\ mentions_file.rows[1].date = mentions_file.rows[2].date
    /\ mentions_file.rows[1].context = mentions_file.rows[2].context
    /\ mentions_file.rows[1].url /= mentions_file.rows[2].url

\* C21: generate_word_cloud_data returns at most max_words entries, in
\* non-increasing order of value, each a word of the tally with its count,
\* and no word left out has a count greater than that of a word included.
C21_TopWordsByCount ==
    script_pc = "returned" =>
        LET tally == args.word_counts
            out == word_cloud_data
            included == {out[i].text : i \in 1..Len(out)}
        IN  /\ Len(out) <= args.max_words
            /\ \A i, j \in 1..Len(out) : i < j => out[i].value >= out[j].value
            /\ \A i, j \in 1..Len(out) : out[i].text = out[j].text => i = j
            /\ \A i \in 1..Len(out) :
                   \E k \in 1..Len(tally) : tally[k] = <<out[i].text, out[i].value>>
            /\ \A k \in 1..Len(tally) :
                   tally[k][1] \notin included =>
                       \A i \in 1..Len(out) : tally[k][2] <= out[i].value

\* a tally of three words whose first is its least frequent, cut to two
C21_Witness ==
    /\ script_pc = "returned"
    /\ Len(args.word_counts) = 3
    /\ args.max_words = 2
    /\ args.word_counts[1][2] < args.word_counts[2][2]
    /\ Len(word_cloud_data) = 2
    /\ word_cloud_data[1].text /= args.word_counts[1][1]
    /\ word_cloud_data[2].text /= args.word_counts[1][1]

\* C26: the streaming module's main never ends in an uncaught error before
\* the scan starts: it goes on to process_previous_days and save_results.
C26_MainReachesScan ==
    "days" \in DOMAIN args => script_pc /= "type_error"

\* a caller that passes days_back alone does reach save_results, which
\* writes the mention CSV and the word-cloud JSON
C26_SavedByCaller ==
    /\ script_pc = "saved"
    /\ "days_back" \in DOMAIN args
    /\ Len(written) = 2
    /\ written[1].shape = "csv"
    /\ written[2].shape = "list"
    /\ Len(written[2].content) = 2

\* a date argument that is given and is not a date
NotADate(v) == v.t = "str" /\ ~Strptime(v.s).ok

\* C22: when --start-date or --end-date is given a value that is not a
\* valid YYYY-MM-DD date, or the start date is after the end date, the
\* analysis script exits with status 1 before the scanner is invoked and
\* before any file is written.
C22_BadDatesExit ==
    (script_pc /= "main" /\ "visualize" \in DOMAIN args /\
        \/ NotADate(args.start_date)
        \/ NotADate(args.end_date)
        \/ /\ args.start_date.t = "str" /\ args.end_date.t = "str"
           /\ Strptime(args.start_date.s).ok /\ Strptime(args.end_date.s).ok
           /\ Strptime(args.start_date.s).day > Strptime(args.end_date.s).day)
    => /\ script_pc = "exit_1"
       /\ scanned = <<>>
       /\ written = <<>>

\* the writes of the run to the files of one name, in order
WritesTo(name) == SelectSeq(written, LAMBDA w : w.name = name)

\* the mention contexts that contain 'uncertainty'
MatchingContexts == {i \in 1..Len(df.rows) : MentionsUncertainty(df.rows[i].context)}

\* C25: every word of the co-occurrence CSV is counted at most once per
\* matching context: its co_occurrences_with_uncertainty is at most the
\* number of mention contexts that contain 'uncertainty', also after the
\* variants of a word have been grouped under one name.
C25_OncePerContext ==
    \A k \in 1..Len(written) :
        written[k].name \in {CoocPattern, CoocName} =>
            \A i \in 1..Len(written[k].content) :
                written[k].content[i].count <= Cardinality(MatchingContexts)

\* visualize_results has ended, by return or by an exception
VisualizeEnded == script_pc \in {"done", "raised"} /\ args = NoArgs

\* C30: with a mention table that is not empty, word_cloud_data.json is
\* written twice, first as a mapping and then as a list, and the list is
\* that of the raw word-cloud file of the run; with an empty table nothing
\* is written.
C30_RollingWrittenTwice ==
    VisualizeEnded =>
        IF df.rows = <<>> THEN written = <<>>
        ELSE /\ Len(WritesTo(WordcloudName)) = 2
             /\ WritesTo(WordcloudName)[1].shape = "mapping"
             /\ WritesTo(WordcloudName)[2].shape = "list"
             /\ Len(WritesTo(WordcloudPattern)) = 1
             /\ WritesTo(WordcloudName)[2].content = WritesTo(WordcloudPattern)[1].content

\* the same for the tables whose dates all parse
C30_WhenDatesParse ==
    (VisualizeEnded /\ DatesParse(df.rows)) =>
        IF df.rows = <<>> THEN written = <<>>
        ELSE /\ Len(WritesTo(WordcloudName)) = 2
             /\ WritesTo(WordcloudName)[1].shape = "mapping"
             /\ WritesTo(WordcloudName)[2].shape = "list"
             /\ Len(WritesTo(WordcloudPattern)) = 1
             /\ WritesTo(WordcloudName)[2].content = WritesTo(WordcloudPattern)[1].content

====
